---------------------------- MODULE Spec2Model ----------------------------
(***************************************************************************)
(* The document conversion pipeline of pdf-tools-suite                     *)
(* (src/utils/fileProcessors.js, the "enhanced" FileProcessor that         *)
(* ToolInterface imports): one run of processFiles, from the call to the   *)
(* settled promise, one action per awaited step.                           *)
(*                                                                         *)
(* A PDF document is the ordered sequence of its pages; a page is the pair *)
(* <<file, n>> of the input file it came from and its 1-based number       *)
(* there, so copying pages between documents keeps their identity.         *)
(***************************************************************************)
EXTENDS Integers, Sequences, FiniteSets, TLC

\* ------------------------------------------------------------------ bounds
MaxFiles == 3
MaxPages == 3
MaxRanges == 2

\* ------------------------------------------------------- program constants
MAX_PAGES_DEFAULT == 100

\* --------------------------------------------------------- JavaScript values
\* A numeric option value: a number, or undefined (the field is absent).
Num(n) == [t |-> "num", n |-> n]
Undef == [t |-> "undef", n |-> 0]
\* A numeric option given as text that parseInt cannot read, like "high".
NotNumeric == [t |-> "text", n |-> 0]
\* JavaScript truthiness of such a value: undefined and 0 are falsy.
Truthy(v) == v.t = "num" /\ v.n # 0
\* parseInt(v || d, 10) for integer v.
ParseIntOr(v, d) == IF Truthy(v) THEN v.n ELSE d
\* A JavaScript number that may be NaN, and the arithmetic on such numbers:
\* NaN goes through Math.max and Math.min, every comparison with it is false.
NaN == [nan |-> TRUE, n |-> 0]
Number(n) == [nan |-> FALSE, n |-> n]
\* parseInt(v || d, 10), v being possibly a string without digits
ParseInt(v, d) == IF v = NotNumeric THEN NaN ELSE Number(ParseIntOr(v, d))
Gt(a, b) == ~a.nan /\ ~b.nan /\ a.n > b.n
Lt(a, b) == ~a.nan /\ ~b.nan /\ a.n < b.n
MathMax(a, b) ==
    IF a.nan \/ b.nan THEN NaN ELSE Number(IF a.n >= b.n THEN a.n ELSE b.n)
MathMin(a, b) ==
    IF a.nan \/ b.nan THEN NaN ELSE Number(IF a.n <= b.n THEN a.n ELSE b.n)
\* An absent string option.
Undefined == "undefined"
\* s || d for a string option.
StrOr(s, d) == IF s = Undefined \/ s = "" THEN d ELSE s

Max(a, b) == IF a >= b THEN a ELSE b
Min(a, b) == IF a <= b THEN a ELSE b
\* Math.round(num / den) for num >= 0, den > 0.
Round(num, den) == (2 * num + den) \div (2 * den)

\* The decimal digits of n >= 0, most significant first (Number.toString).
RECURSIVE Digits(_)
Digits(n) == IF n < 10 THEN <<n>> ELSE Digits(n \div 10) \o <<n % 10>>
\* String.padStart(len, '0') on a digit string.
RECURSIVE PadStart(_, _)
PadStart(ds, len) == IF Len(ds) >= len THEN ds ELSE PadStart(<<0>> \o ds, len)

\* ------------------------------------------------------------------- tools
ToolIds == {"pdf-to-word", "merge-pdf", "split-pdf", "compress-pdf",
            "pdf-to-images", "word-to-pdf"}
UnknownToolIds == {"rotate-pdf"}

\* The prefix each tool's catch block puts before the cause.
ErrorPrefix(tool) ==
    CASE tool = "pdf-to-word" -> "Enhanced PDF->Word failed"
      [] tool = "merge-pdf" -> "Enhanced merge failed"
      [] tool = "split-pdf" -> "Enhanced split failed"
      [] tool = "compress-pdf" -> "Enhanced compression failed"
      [] tool = "pdf-to-images" -> "Enhanced PDF->Images failed"
      [] tool = "word-to-pdf" -> "Enhanced Word->PDF failed"

\* ------------------------------------------------------------------ inputs
\* The document of input file k when it has n pages.
DocOf(k, n) == [p \in 1..n |-> <<k, p>>]
Stems == <<"a", "b", "c", "d", "e">>
\* A SourceFile: its name, the document its bytes hold, whether the bytes
\* fail to parse, and whether they start with the zip signature "PK".
SourceFile(k, ext, n, bad, zip) ==
    [name |-> [stem |-> Stems[k], ext |-> ext], doc |-> DocOf(k, n),
     corrupt |-> bad, isZip |-> zip]
PdfFiles(k, counts) ==
    {SourceFile(k, "pdf", n, bad, FALSE) : n \in counts, bad \in BOOLEAN}
WordFiles ==
    {SourceFile(1, ext, 1, bad, zip) :
        ext \in {"docx", "doc"}, bad \in BOOLEAN, zip \in BOOLEAN}

\* Lists of n PDF files, file k at position k.
RECURSIVE PdfLists(_)
PdfLists(n) ==
    IF n = 0 THEN {<<>>}
    ELSE {Append(fs, f) : fs \in PdfLists(n - 1), f \in PdfFiles(n, 0..MaxPages)}

\* The files argument: an array, or something that is not an array.
FileArray(items) == [isArray |-> TRUE, items |-> items]
NotAnArray == [isArray |-> FALSE, items |-> <<>>]

RangeVals == {Undef} \cup {Num(n) : n \in 0..(MaxPages + 1)}
\* The values of a single range object: also a negative number and a string
\* without digits.
RangeValsAny == RangeVals \cup {Num(-1), NotNumeric}
Ranges == [from : RangeValsAny, to : RangeValsAny]
\* The range values used in arrays of several ranges: absent, first page,
\* second page (in order, equal, or inverted).
ListRanges == [from : {Undef, Num(1), Num(2)}, to : {Undef, Num(1), Num(2)}]
RECURSIVE RangeLists(_)
RangeLists(n) ==
    IF n = 0 THEN {<<>>}
    ELSE {Append(rs, r) : rs \in RangeLists(n - 1), r \in ListRanges}
\* options.ranges: absent, one range object, or an array of range objects.
NoRanges == [present |-> FALSE, isArray |-> FALSE, items |-> <<>>]
RangeObject(r) == [present |-> TRUE, isArray |-> FALSE, items |-> <<r>>]
RangeArray(rs) == [present |-> TRUE, isArray |-> TRUE, items |-> rs]
RangesValues ==
    {NoRanges} \cup {RangeObject(r) : r \in Ranges} \cup
    {RangeArray(rs) : rs \in UNION {RangeLists(n) : n \in 0..MaxRanges}}

DefaultOptions ==
    [splitType |-> Undefined, fromPage |-> Undef, toPage |-> Undef,
     ranges |-> NoRanges, maxPages |-> Undef, imageFormat |-> Undefined,
     removeMetadata |-> Undefined, compressionLevel |-> Undef,
     imageScale |-> Undef]

SplitTypes == {Undefined, "pages", "range"}
\* What ToolOptions builds (splitType, fromPage, toPage) and what a direct
\* caller of processFiles can pass (splitType, ranges).
SplitOptions ==
    {[DefaultOptions EXCEPT !.splitType = st, !.fromPage = f, !.toPage = t] :
        st \in SplitTypes, f \in RangeVals, t \in RangeVals}
    \cup
    {[DefaultOptions EXCEPT !.splitType = st, !.ranges = rs] :
        st \in SplitTypes, rs \in RangesValues}
\* The image formats ToolOptions offers, one of them in capitals, and one it
\* does not offer.
ImageFormats == {"png", "jpeg", "JPEG", "gif"}
\* imageScale values, in tenths: 1.0 and 9.0.
ImageScales == {Num(10), Num(90)}
ImageOptions ==
    {[DefaultOptions EXCEPT !.maxPages = m] :
        m \in {Undef} \cup {Num(n) : n \in 0..MaxPages}}
    \cup {[DefaultOptions EXCEPT !.imageFormat = f] : f \in ImageFormats}
    \cup {[DefaultOptions EXCEPT !.imageScale = sc] : sc \in ImageScales}
CompressOptions ==
    {[DefaultOptions EXCEPT !.removeMetadata = rm, !.compressionLevel = cl] :
        rm \in {Undefined, "true", "false"},
        cl \in {Undef, NotNumeric} \cup {Num(n) : n \in 0..4}}

FilesFor(tool) ==
    CASE tool = "merge-pdf" ->
            {FileArray(fs) : fs \in UNION {PdfLists(n) : n \in 1..MaxFiles}}
      [] tool = "pdf-to-images" ->
            {FileArray(<<f>>) :
                f \in PdfFiles(1, (0..(MaxPages + 1)) \cup
                                  {MAX_PAGES_DEFAULT, MAX_PAGES_DEFAULT + 1})}
      [] tool = "word-to-pdf" -> {FileArray(<<f>>) : f \in WordFiles}
      [] OTHER -> {FileArray(<<f>>) : f \in PdfFiles(1, 0..MaxPages)}
OptionsFor(tool) ==
    CASE tool = "split-pdf" -> SplitOptions
      [] tool = "pdf-to-images" -> ImageOptions
      [] tool = "compress-pdf" -> CompressOptions
      [] OTHER -> {DefaultOptions}

\* ------------------------------------------------------------------- state
VARIABLES
    toolId,     \* processFiles' toolId argument
    files,      \* its files argument
    options,    \* its options argument
    pc,         \* where the run is
    progress,   \* the percentages passed to updateProgress so far, in order
    bytesRead,  \* how many times file.arrayBuffer() has been awaited
    loaded,     \* how many documents have been parsed from bytes
    doc,        \* the document being read (sourcePdf) or built (mergedPdf)
    idx,        \* the loop counter (i, or pageNum)
    results,    \* the function's local results array
    rendered,   \* how many pages have been rendered to a canvas
    ret,        \* the promise processFiles returned
    roundTrip,  \* whether this run merges the outputs of a split run
    source,     \* the document that split run started from
    dom,        \* what the run has attached to the document, and its canvases
    wrapArgs,   \* the arguments of a call of intelligentTextWrap
    wrapRet,    \* how that call ended
    tool,           \* ToolInterface: the tool prop (its configuration)
    uploadedFiles,  \* ToolInterface: the uploadedFiles state
    isProcessing,   \* ToolInterface: the isProcessing state
    uiProgress,     \* ToolInterface: the progress state
    uiResults,      \* ToolInterface: the results state
    call,           \* ToolInterface: the processFiles call it awaits
    timers,         \* ToolInterface: pending setTimeout callbacks
    textContent,    \* the text items pdf.js returned for a page
    textBlocks,     \* what groupTextByBlocks made of them
    pageHtml,       \* what renderTextBlocksAsHtml made of the blocks
    extracted,      \* how far the extraction of the page is
    container,      \* worldClassHtmlToPdf: the element tree it renders
    layout,         \* worldClassHtmlToPdf: options.pageSize and options.margin
    walk,           \* worldClassHtmlToPdf: where processAdvancedElement is
    pdf             \* worldClassHtmlToPdf: the document, cursorY, currentPage

\* The state of one processFiles run.
run == <<toolId, files, options, pc, progress, bytesRead, loaded, doc, idx,
         results, rendered, ret, roundTrip, source, dom>>
\* The state outside that run.
wrapVars == <<wrapArgs, wrapRet>>
uiVars == <<tool, uploadedFiles, isProcessing, uiProgress, uiResults, call,
            timers>>
extractVars == <<textContent, textBlocks, pageHtml, extracted>>
drawVars == <<container, layout, walk, pdf>>
aux == <<wrapVars, uiVars, extractVars, drawVars>>
\* What the steps of each part leave alone.
exceptWrap == <<run, uiVars, extractVars, drawVars>>
exceptUi == <<run, wrapVars, extractVars, drawVars>>
exceptExtract == <<run, wrapVars, uiVars, drawVars>>
exceptDraw == <<run, wrapVars, uiVars, extractVars>>
vars == <<run, aux>>

\* No call of intelligentTextWrap under way.
NoWrap ==
    /\ wrapArgs = [text |-> <<>>, maxWidth |-> 0, fontSize |-> 0]
    /\ wrapRet = [state |-> "none", lines |-> <<>>]

\* useState's initial values in ToolInterface: no progress, no results.
NoProgress == [percentage |-> 0, text |-> ""]
NoResults == [of |-> <<>>, count |-> 0]
NoCall == [state |-> "none", files |-> <<>>, last |-> 0]
\* No ToolInterface mounted.
NoUi ==
    /\ tool = [accept |-> <<>>, multiple |-> FALSE]
    /\ uploadedFiles = <<>>
    /\ isProcessing = FALSE
    /\ uiProgress = NoProgress
    /\ uiResults = NoResults
    /\ call = NoCall
    /\ timers = 0

\* No page being extracted.
NoExtract ==
    /\ textContent = <<>>
    /\ textBlocks = <<>>
    /\ pageHtml = <<>>
    /\ extracted = "none"

\* No element tree being rendered.
NoPdf == [pages |-> <<>>, cursorY |-> 0, currentPage |-> 0]
NoWalk == [state |-> "none", stack |-> <<>>, left |-> 0]
NoDraw ==
    /\ container = <<>>
    /\ layout = [pageSize |-> "undefined", margin |-> "undefined"]
    /\ walk = NoWalk
    /\ pdf = NoPdf

\* Nothing attached to the document, no canvas created.
EmptyDom == [container |-> FALSE, enhancedStyles |-> FALSE, canvases |-> <<>>]

Pending == [state |-> "pending", value |-> <<>>, prefix |-> "", cause |-> ""]
Resolved(v) == [state |-> "resolved", value |-> v, prefix |-> "", cause |-> ""]
\* new Error(`${prefix}: ${cause}`), or new Error(cause) when unwrapped.
Rejected(prefix, cause) ==
    [state |-> "rejected", value |-> <<>>, prefix |-> prefix, cause |-> cause]

File == files.items[1]

Init ==
    /\ toolId \in ToolIds \cup UnknownToolIds
    /\ \/ files \in {NotAnArray, FileArray(<<>>)}
       \/ files \in FilesFor(toolId)
    /\ options \in OptionsFor(toolId)
    /\ pc = "idle"
    /\ progress = <<>>
    /\ bytesRead = 0
    /\ loaded = 0
    /\ doc = <<>>
    /\ idx = 0
    /\ results = <<>>
    /\ rendered = 0
    /\ ret = Pending
    /\ roundTrip = FALSE
    /\ source = <<>>
    /\ dom = EmptyDom
    /\ NoWrap
    /\ NoUi
    /\ NoExtract
    /\ NoDraw

\* No processFiles run under way.
NoRun ==
    /\ toolId = "merge-pdf"
    /\ files = FileArray(<<>>)
    /\ options = DefaultOptions
    /\ pc = "none"
    /\ progress = <<>>
    /\ bytesRead = 0
    /\ loaded = 0
    /\ doc = <<>>
    /\ idx = 0
    /\ results = <<>>
    /\ rendered = 0
    /\ ret = Pending
    /\ roundTrip = FALSE
    /\ source = <<>>
    /\ dom = EmptyDom

\* A catch block that hands back what was built so far.
ThrowPartial(cause) ==
    /\ pc' = "failed"
    /\ ret' = [state |-> "rejected", value |-> results,
               prefix |-> ErrorPrefix(toolId), cause |-> cause]

\* A throw inside a tool's try block: the catch rethrows it with the tool's
\* prefix and the promise rejects; the local results array is dropped.
Throw(cause) ==
    /\ pc' = "failed"
    /\ ret' = Rejected(ErrorPrefix(toolId), cause)

Emit(ps) == progress' = progress \o ps

\* ------------------------------------------------------------ processFiles
StartLabel(id) ==
    CASE id = "pdf-to-word" -> "word_out_start"
      [] id = "merge-pdf" -> "merge_start"
      [] id = "split-pdf" -> "split_start"
      [] id = "compress-pdf" -> "compress_start"
      [] id = "pdf-to-images" -> "images_start"
      [] id = "word-to-pdf" -> "word_in_start"

EmptyInput == ~files.isArray \/ Len(files.items) = 0

\* The empty-input check placed after the first progress event.
ProcessFilesNoFilesLate ==
    /\ pc = "idle"
    /\ EmptyInput
    /\ Emit(<<5>>)
    /\ pc' = "failed"
    /\ ret' = Rejected("", "No files supplied to processFiles")
    /\ UNCHANGED <<aux, dom, toolId, files, options, bytesRead, loaded, doc,
                   idx, results, rendered, roundTrip, source>>

ProcessFilesNoFiles ==
    /\ pc = "idle"
    /\ EmptyInput
    /\ pc' = "failed"
    /\ ret' = Rejected("", "No files supplied to processFiles")
    /\ UNCHANGED <<aux, dom, toolId, files, options, progress, bytesRead, loaded, doc,
                   idx, results, rendered, roundTrip, source>>

ProcessFilesUnknownTool ==
    /\ pc = "idle"
    /\ ~EmptyInput
    /\ toolId \notin ToolIds
    /\ pc' = "failed"
    /\ ret' = Rejected("", "Unknown tool")
    /\ UNCHANGED <<aux, dom, toolId, files, options, progress, bytesRead, loaded, doc,
                   idx, results, rendered, roundTrip, source>>

ProcessFilesDispatch ==
    /\ pc = "idle"
    /\ ~EmptyInput
    /\ toolId \in ToolIds
    /\ pc' = StartLabel(toolId)
    /\ UNCHANGED <<aux, dom, toolId, files, options, progress, bytesRead, loaded, doc,
                   idx, results, rendered, ret, roundTrip, source>>


\* ---------------------------------------------------------------- pdf-lib
\* PDFDocument.save(): with addDefaultPage (the default) a document without
\* pages gets one blank page before it is serialized.
BlankPage == <<0, 0>>
Save(d, addDefaultPage) ==
    IF addDefaultPage /\ d = <<>> THEN <<BlankPage>> ELSE d
\* copyPages(src, indices) for 0-based indices, then addPage of each: the
\* pages of src at those indices, in the order of the indices.
CopyPagesReversed(src, indices) ==
    [k \in 1..Len(indices) |-> src[indices[Len(indices) + 1 - k] + 1]]
CopyPages(src, indices) == [k \in 1..Len(indices) |-> src[indices[k] + 1]]
\* Array.from({length: to - from + 1}, (_, idx) => from - 1 + idx)
PageIndices(from, to) ==
    [k \in 1..Max(0, to - from + 1) |-> from - 1 + (k - 1)]

\* file.name.replace(/\.pdf$/i, "")
StripPdf(name) == IF name.ext = "pdf" THEN [stem |-> name.stem, ext |-> ""] ELSE name
\* An output name: base, a tag, up to two numbers as digit strings, extension.
OutName(base, tag, n1, n2, ext) ==
    [base |-> base, tag |-> tag, n1 |-> n1, n2 |-> n2, ext |-> ext]
Result(name, d) == [name |-> name, doc |-> d]

\* ------------------------------------------------------- enhancedMergePdfs
MergeProgress(i, n) == 5 + Round(i * 80, n)

MergeStart ==
    /\ pc = "merge_start"
    /\ Emit(<<5>>)
    /\ doc' = <<>>
    /\ idx' = 0
    /\ pc' = "merge_loop"
    /\ UNCHANGED <<aux, dom, toolId, files, options, bytesRead, loaded, results,
                   rendered, ret, roundTrip, source>>

\* One iteration of the loop over files: progress, read, load, copy, add.
MergeFile ==
    /\ pc = "merge_loop"
    /\ idx < Len(files.items)
    /\ ~files.items[idx + 1].corrupt
    /\ Emit(<<MergeProgress(idx, Len(files.items))>>)
    /\ bytesRead' = bytesRead + 1
    /\ loaded' = loaded + 1
    /\ LET donorDoc == files.items[idx + 1].doc
           pageIndices == [k \in 1..Len(donorDoc) |-> k - 1]
       IN doc' = doc \o CopyPages(donorDoc, pageIndices)
    /\ idx' = idx + 1
    /\ UNCHANGED <<aux, dom, toolId, files, options, pc, results, rendered, ret, roundTrip, source>>

\* PDFDocument.load throws on bytes that are no PDF.
MergeFileCorrupt ==
    /\ pc = "merge_loop"
    /\ idx < Len(files.items)
    /\ files.items[idx + 1].corrupt
    /\ Emit(<<MergeProgress(idx, Len(files.items))>>)
    /\ bytesRead' = bytesRead + 1
    /\ Throw("load")
    /\ UNCHANGED <<aux, dom, toolId, files, options, loaded, doc, idx, results,
                   rendered, roundTrip, source>>

MergeResult(d) == <<Result(OutName([stem |-> "merged_document", ext |-> ""], "_", <<>>, <<>>, "pdf"), Save(d, FALSE))>>

MergeSave ==
    /\ pc = "merge_loop"
    /\ idx >= Len(files.items)
    /\ Emit(<<90, 100>>)
    /\ results' = MergeResult(doc)
    /\ ret' = Resolved(results')
    /\ pc' = "done"
    /\ UNCHANGED <<aux, dom, toolId, files, options, bytesRead, loaded, doc, idx,
                   rendered, roundTrip, source>>

\* mergedPdf.save throws.
MergeSaveFail ==
    /\ pc = "merge_loop"
    /\ idx >= Len(files.items)
    /\ Emit(<<90>>)
    /\ Throw("save")
    /\ UNCHANGED <<aux, dom, toolId, files, options, bytesRead, loaded, doc, idx,
                   results, rendered, roundTrip, source>>

\* -------------------------------------------------------- enhancedSplitPdf
SplitStart ==
    /\ pc = "split_start"
    /\ Emit(<<5>>)
    /\ pc' = "split_load"
    /\ UNCHANGED <<aux, dom, toolId, files, options, bytesRead, loaded, doc, idx,
                   results, rendered, ret, roundTrip, source>>

\* splitType === "range" && options.ranges
RangeMode(o) == StrOr(o.splitType, "pages") = "range" /\ o.ranges.present

SplitLoad ==
    /\ pc = "split_load"
    /\ ~File.corrupt
    /\ bytesRead' = bytesRead + 1
    /\ loaded' = loaded + 1
    /\ doc' = File.doc
    /\ results' = <<>>
    /\ IF RangeMode(options)
       THEN pc' = "split_ranges" /\ idx' = 0
       ELSE pc' = "split_pages" /\ idx' = 1
    /\ UNCHANGED <<aux, dom, toolId, files, options, progress, rendered, ret, roundTrip, source>>

SplitLoadCorrupt ==
    /\ pc = "split_load"
    /\ File.corrupt
    /\ bytesRead' = bytesRead + 1
    /\ Throw("load")
    /\ UNCHANGED <<aux, dom, toolId, files, options, progress, loaded, doc, idx,
                   results, rendered, roundTrip, source>>

\* from and to of a range object, clamped as the loop clamps them.
RangeFrom(range) == MathMax(Number(1), ParseInt(range.from, 1))
RangeTo(range, totalPages) ==
    MathMin(Number(totalPages), ParseInt(range.to, totalPages))
\* A range check that forgets the inverted range.
InvalidRangeNoOrder(from, to, totalPages) ==
    Lt(from, Number(1)) \/ Gt(to, Number(totalPages))
InvalidRange(from, to, totalPages) ==
    Gt(from, to) \/ Lt(from, Number(1)) \/ Gt(to, Number(totalPages))
RangeProgress(i, n) == 10 + Round(i * 70, n)
\* Array.from({length: to - from + 1}, ...): a length of NaN is a length of 0
RangeIndices(from, to) ==
    IF from.nan \/ to.nan THEN <<>> ELSE PageIndices(from.n, to.n)
\* `${baseName}_pages_${from}_to_${to}.pdf`
RangeName(base, from, to) ==
    CASE from.nan /\ to.nan ->
           OutName(base, "_pages_NaN_to_NaN", <<>>, <<>>, "pdf")
      [] from.nan /\ ~to.nan ->
           OutName(base, "_pages_NaN_to_", <<>>, Digits(to.n), "pdf")
      [] ~from.nan /\ to.nan ->
           OutName(base, "_pages_to_NaN", Digits(from.n), <<>>, "pdf")
      [] OTHER -> OutName(base, "_pages_", Digits(from.n), Digits(to.n), "pdf")
RangeResult(base, src, from, to) ==
    Result(RangeName(base, from, to),
           Save(CopyPages(src, RangeIndices(from, to)), TRUE))

CurrentRange == options.ranges.items[idx + 1]

SplitRange ==
    /\ pc = "split_ranges"
    /\ idx < Len(options.ranges.items)
    /\ LET from == RangeFrom(CurrentRange)
           to == RangeTo(CurrentRange, Len(doc))
       IN /\ ~InvalidRange(from, to, Len(doc))
          /\ Emit(<<RangeProgress(idx, Len(options.ranges.items))>>)
          /\ results' = Append(results, RangeResult(StripPdf(File.name), doc, from, to))
    /\ idx' = idx + 1
    /\ UNCHANGED <<aux, dom, toolId, files, options, pc, bytesRead, loaded, doc,
                   rendered, ret, roundTrip, source>>

SplitRangeInvalid ==
    /\ pc = "split_ranges"
    /\ idx < Len(options.ranges.items)
    /\ InvalidRange(RangeFrom(CurrentRange), RangeTo(CurrentRange, Len(doc)), Len(doc))
    /\ Throw("Invalid range")
    /\ UNCHANGED <<aux, dom, toolId, files, options, progress, bytesRead, loaded, doc,
                   idx, results, rendered, roundTrip, source>>

\* copyPages or save throws while a valid range is being built.
SplitRangeFail ==
    /\ pc = "split_ranges"
    /\ idx < Len(options.ranges.items)
    /\ ~InvalidRange(RangeFrom(CurrentRange), RangeTo(CurrentRange, Len(doc)), Len(doc))
    /\ Emit(<<RangeProgress(idx, Len(options.ranges.items))>>)
    /\ Throw("save")
    /\ UNCHANGED <<aux, dom, toolId, files, options, bytesRead, loaded, doc, idx,
                   results, rendered, roundTrip, source>>

\* A progress formula that counts against 100 instead of 80.
PageProgressTo100(pageNum, totalPages) == 10 + Round(pageNum * 100, totalPages)
PageProgress(pageNum, totalPages) == 10 + Round(pageNum * 80, totalPages)
\* A loop that stops one page early.
MorePagesStopEarly(pageNum, totalPages) == pageNum < totalPages
\* pageNum <= totalPages, the condition of the page loops.
MorePages(pageNum, totalPages) == pageNum <= totalPages
\* A name padded to two digits.
PageNamePad2(base, pageNum, ext) ==
    OutName(base, "_page_", PadStart(Digits(pageNum), 2), <<>>, ext)
\* `${baseName}_page_${pageNum.toString().padStart(3, '0')}.pdf`
PageName(base, pageNum, ext) ==
    OutName(base, "_page_", PadStart(Digits(pageNum), 3), <<>>, ext)
PageResult(base, src, pageNum) ==
    Result(PageName(base, pageNum, "pdf"), Save(CopyPages(src, <<pageNum - 1>>), TRUE))

SplitPage ==
    /\ pc = "split_pages"
    /\ MorePages(idx, Len(doc))
    /\ Emit(<<PageProgress(idx, Len(doc))>>)
    /\ results' = Append(results, PageResult(StripPdf(File.name), doc, idx))
    /\ idx' = idx + 1
    /\ UNCHANGED <<aux, dom, toolId, files, options, pc, bytesRead, loaded, doc,
                   rendered, ret, roundTrip, source>>

SplitPageFail ==
    /\ pc = "split_pages"
    /\ MorePages(idx, Len(doc))
    /\ Emit(<<PageProgress(idx, Len(doc))>>)
    /\ Throw("save")
    /\ UNCHANGED <<aux, dom, toolId, files, options, bytesRead, loaded, doc, idx,
                   results, rendered, roundTrip, source>>

SplitFinish ==
    /\ \/ pc = "split_ranges" /\ idx >= Len(options.ranges.items)
       \/ pc = "split_pages" /\ ~MorePages(idx, Len(doc))
    /\ Emit(<<100>>)
    /\ ret' = Resolved(results)
    /\ pc' = "done"
    /\ UNCHANGED <<aux, dom, toolId, files, options, bytesRead, loaded, doc, idx,
                   results, rendered, roundTrip, source>>


\* ----------------------------------------------------- enhancedPdfToImages
MAX_PAGES(o) == IF Truthy(o.maxPages) THEN o.maxPages.n ELSE MAX_PAGES_DEFAULT
\* A limit check that lets one page too many through.
ExceedsLimitOffByOne(numPages, max) == numPages > max + 1
\* numPages > MAX_PAGES
ExceedsLimit(numPages, max) == numPages > max
\* String.toLowerCase() on the format names.
ToLowerCase(s) == CASE s = "JPEG" -> "jpeg" [] s = "PNG" -> "png" [] OTHER -> s
\* (options.imageFormat || "png").toLowerCase()
ImageFormat(o) == ToLowerCase(StrOr(o.imageFormat, "png"))
\* typeof options.imageScale === "number" ?
\*     Math.max(0.5, Math.min(5.0, options.imageScale)) : 2.0, in tenths.
ImageScale(o) ==
    IF o.imageScale.t = "num" THEN Max(5, Min(50, o.imageScale.n)) ELSE 20
\* new OffscreenCanvas(viewport.width, viewport.height): the page at that
\* scale, in tenths of the page's own width and height.
Canvas(scale) == [width |-> scale, height |-> scale]
\* The loop body without its memory cleanup.
KeepCanvas(canvas) == canvas
\* canvas.width = canvas.height = 0
ResetCanvas(canvas) == [width |-> 0, height |-> 0]
\* The "Memory cleanup" at the end of the loop body, on the canvas of this
\* iteration (the last one created).
Cleanup(canvases) ==
    [canvases EXCEPT ![Len(canvases)] = ResetCanvas(canvases[Len(canvases)])]

ImagesStart ==
    /\ pc = "images_start"
    /\ Emit(<<5>>)
    /\ pc' = "images_load"
    /\ UNCHANGED <<aux, dom, toolId, files, options, bytesRead, loaded, doc, idx,
                   results, rendered, ret, roundTrip, source>>

ImagesLoad ==
    /\ pc = "images_load"
    /\ ~File.corrupt
    /\ ~ExceedsLimit(Len(File.doc), MAX_PAGES(options))
    /\ bytesRead' = bytesRead + 1
    /\ Emit(<<10>>)
    /\ loaded' = loaded + 1
    /\ doc' = File.doc
    /\ results' = <<>>
    /\ idx' = 1
    /\ pc' = "images_pages"
    /\ UNCHANGED <<aux, dom, toolId, files, options, rendered, ret, roundTrip, source>>

ImagesLoadCorrupt ==
    /\ pc = "images_load"
    /\ File.corrupt
    /\ bytesRead' = bytesRead + 1
    /\ Emit(<<10>>)
    /\ Throw("load")
    /\ UNCHANGED <<aux, dom, toolId, files, options, loaded, doc, idx, results,
                   rendered, roundTrip, source>>

ImagesTooManyPages ==
    /\ pc = "images_load"
    /\ ~File.corrupt
    /\ ExceedsLimit(Len(File.doc), MAX_PAGES(options))
    /\ bytesRead' = bytesRead + 1
    /\ Emit(<<10>>)
    /\ loaded' = loaded + 1
    /\ doc' = File.doc
    /\ Throw("exceeds limit")
    /\ UNCHANGED <<aux, dom, toolId, files, options, idx, results, rendered, roundTrip,
                   source>>

\* An iteration up to page.render: progress, getPage resolves, the canvas is
\* created at the size of the viewport.
ImagesPage ==
    /\ pc = "images_pages"
    /\ MorePages(idx, Len(doc))
    /\ Emit(<<PageProgress(idx, Len(doc))>>)
    /\ dom' = [dom EXCEPT !.canvases = Append(@, Canvas(ImageScale(options)))]
    /\ pc' = "images_render"
    /\ UNCHANGED <<aux, toolId, files, options, bytesRead, loaded, doc, idx,
                   results, rendered, ret, roundTrip, source>>

\* getPage throws: no canvas has been created for this page.
ImagesPageFail ==
    /\ pc = "images_pages"
    /\ MorePages(idx, Len(doc))
    /\ Emit(<<PageProgress(idx, Len(doc))>>)
    /\ Throw("getPage")
    /\ UNCHANGED <<aux, dom, toolId, files, options, bytesRead, loaded, doc, idx,
                   results, rendered, roundTrip, source>>

\* page.render resolves; the canvas is handed to convertToBlob / toBlob.
ImagesRendered ==
    /\ pc = "images_render"
    /\ rendered' = rendered + 1
    /\ pc' = "images_encode"
    /\ UNCHANGED <<aux, dom, toolId, files, options, progress, bytesRead, loaded,
                   doc, idx, results, ret, roundTrip, source>>

\* page.render rejects: the catch block rethrows, the cleanup is skipped.
ImagesRenderFail ==
    /\ pc = "images_render"
    /\ Throw("render")
    /\ UNCHANGED <<aux, dom, toolId, files, options, progress, bytesRead, loaded,
                   doc, idx, results, rendered, roundTrip, source>>

\* The blob is produced: the result is pushed, the canvas reset, and the loop
\* goes on to the next page.
ImagesEncoded ==
    /\ pc = "images_encode"
    /\ results' = Append(results,
          Result(PageName(StripPdf(File.name), idx, ImageFormat(options)), <<doc[idx]>>))
    /\ dom' = [dom EXCEPT !.canvases = Cleanup(@)]
    /\ idx' = idx + 1
    /\ pc' = "images_pages"
    /\ UNCHANGED <<aux, toolId, files, options, progress, bytesRead, loaded, doc,
                   rendered, ret, roundTrip, source>>

\* convertToBlob rejects, or toBlob yields null and blob.size throws.
ImagesEncodeFail ==
    /\ pc = "images_encode"
    /\ Throw("toBlob")
    /\ UNCHANGED <<aux, dom, toolId, files, options, progress, bytesRead, loaded,
                   doc, idx, results, rendered, roundTrip, source>>

ImagesFinish ==
    /\ pc = "images_pages"
    /\ ~MorePages(idx, Len(doc))
    /\ Emit(<<100>>)
    /\ ret' = Resolved(results)
    /\ pc' = "done"
    /\ UNCHANGED <<aux, dom, toolId, files, options, bytesRead, loaded, doc, idx,
                   results, rendered, roundTrip, source>>

\* ----------------------------------------------------- enhancedCompressPdf
\* Math.max(1, Math.min(3, parseInt(options.compressionLevel || 2, 10)))
\* parseInt of text it cannot read is NaN, and Math.min and Math.max of NaN
\* are NaN.
CompressionLevel(o) ==
    IF o.compressionLevel = NotNumeric THEN [nan |-> TRUE, n |-> 0]
    ELSE [nan |-> FALSE, n |-> Max(1, Min(3, ParseIntOr(o.compressionLevel, 2)))]
\* `${baseName}_compressed_L${compressionLevel}.pdf`
CompressedName(base, level) ==
    IF level.nan THEN OutName(base, "_compressed_LNaN", <<>>, <<>>, "pdf")
    ELSE OutName(base, "_compressed_L", Digits(level.n), <<>>, "pdf")
\* options.removeMetadata !== false
RemoveMetadata(o) == o.removeMetadata # "false"

CompressStart ==
    /\ pc = "compress_start"
    /\ Emit(<<5>>)
    /\ pc' = "compress_load"
    /\ UNCHANGED <<aux, dom, toolId, files, options, bytesRead, loaded, doc, idx,
                   results, rendered, ret, roundTrip, source>>

\* Read and load, then everything up to the call of pdf.save.
CompressLoad ==
    /\ pc = "compress_load"
    /\ ~File.corrupt
    /\ bytesRead' = bytesRead + 1
    /\ loaded' = loaded + 1
    /\ doc' = File.doc
    /\ Emit(<<20>> \o (IF RemoveMetadata(options) THEN <<40>> ELSE <<>>) \o <<60, 80>>)
    /\ pc' = "compress_save"
    /\ UNCHANGED <<aux, dom, toolId, files, options, idx, results, rendered, ret,
                   roundTrip, source>>

CompressLoadCorrupt ==
    /\ pc = "compress_load"
    /\ File.corrupt
    /\ bytesRead' = bytesRead + 1
    /\ Throw("load")
    /\ UNCHANGED <<aux, dom, toolId, files, options, progress, loaded, doc, idx,
                   results, rendered, roundTrip, source>>

CompressSave ==
    /\ pc = "compress_save"
    /\ Emit(<<100>>)
    /\ results' = <<Result(CompressedName(StripPdf(File.name),
                                          CompressionLevel(options)),
                           Save(doc, FALSE))>>
    /\ ret' = Resolved(results')
    /\ pc' = "done"
    /\ UNCHANGED <<aux, dom, toolId, files, options, bytesRead, loaded, doc, idx,
                   rendered, roundTrip, source>>

CompressSaveFail ==
    /\ pc = "compress_save"
    /\ Throw("save")
    /\ UNCHANGED <<aux, dom, toolId, files, options, progress, bytesRead, loaded, doc,
                   idx, results, rendered, roundTrip, source>>

\* ------------------------------------------------------- enhancedPdfToWord
\* file.name.replace(/\.[^.]+$/, "")
StripExt(name) == [stem |-> name.stem, ext |-> ""]
WordProgress(pageNum, numPages) == 25 + Round(pageNum * 50, numPages)

PdfToWordStart ==
    /\ pc = "word_out_start"
    /\ Emit(<<5>>)
    /\ pc' = "word_out_load"
    /\ UNCHANGED <<aux, dom, toolId, files, options, bytesRead, loaded, doc, idx,
                   results, rendered, ret, roundTrip, source>>

PdfToWordLoad ==
    /\ pc = "word_out_load"
    /\ ~File.corrupt
    /\ bytesRead' = bytesRead + 1
    /\ loaded' = loaded + 1
    /\ doc' = File.doc
    /\ Emit(<<15, 25>>)
    /\ idx' = 1
    /\ pc' = "word_out_pages"
    /\ UNCHANGED <<aux, dom, toolId, files, options, results, rendered, ret, roundTrip,
                   source>>

PdfToWordLoadCorrupt ==
    /\ pc = "word_out_load"
    /\ File.corrupt
    /\ bytesRead' = bytesRead + 1
    /\ Emit(<<15>>)
    /\ Throw("load")
    /\ UNCHANGED <<aux, dom, toolId, files, options, loaded, doc, idx, results,
                   rendered, roundTrip, source>>

\* One page: getPage, getTextContent, grouping, then the progress event.
PdfToWordPage ==
    /\ pc = "word_out_pages"
    /\ MorePages(idx, Len(doc))
    /\ Emit(<<WordProgress(idx, Len(doc))>>)
    /\ idx' = idx + 1
    /\ UNCHANGED <<aux, dom, toolId, files, options, pc, bytesRead, loaded, doc,
                   results, rendered, ret, roundTrip, source>>

PdfToWordPageFail ==
    /\ pc = "word_out_pages"
    /\ MorePages(idx, Len(doc))
    /\ Throw("text content")
    /\ UNCHANGED <<aux, dom, toolId, files, options, progress, bytesRead, loaded, doc,
                   idx, results, rendered, roundTrip, source>>

PdfToWordFinish ==
    /\ pc = "word_out_pages"
    /\ ~MorePages(idx, Len(doc))
    /\ Emit(<<80, 100>>)
    /\ results' = <<Result(OutName(StripExt(File.name), "_enhanced", <<>>, <<>>, "docx"), doc)>>
    /\ ret' = Resolved(results')
    /\ pc' = "done"
    /\ UNCHANGED <<aux, dom, toolId, files, options, bytesRead, loaded, doc, idx,
                   rendered, roundTrip, source>>

\* ------------------------------------------------------- enhancedWordToPdf
\* ext !== "docx" && !isZip
NotDocx(file) == file.name.ext # "docx" /\ ~file.isZip

WordToPdfStart ==
    /\ pc = "word_in_start"
    /\ Emit(<<5>>)
    /\ pc' = "word_in_validate"
    /\ UNCHANGED <<aux, dom, toolId, files, options, bytesRead, loaded, doc, idx,
                   results, rendered, ret, roundTrip, source>>

WordToPdfValidate ==
    /\ pc = "word_in_validate"
    /\ ~NotDocx(File)
    /\ bytesRead' = bytesRead + 1
    /\ Emit(<<15>>)
    /\ pc' = "word_in_mammoth"
    /\ UNCHANGED <<aux, dom, toolId, files, options, loaded, doc, idx, results,
                   rendered, ret, roundTrip, source>>

WordToPdfReject ==
    /\ pc = "word_in_validate"
    /\ NotDocx(File)
    /\ bytesRead' = bytesRead + 1
    /\ Throw("Only .docx files supported")
    /\ UNCHANGED <<aux, dom, toolId, files, options, progress, loaded, doc, idx,
                   results, rendered, roundTrip, source>>

\* document.head.appendChild(enhancedStyles); document.body.appendChild(container)
Attach(d) == [d EXCEPT !.enhancedStyles = TRUE, !.container = TRUE]
\* The finally block of worldClassHtmlToPdf: both elements are removed from
\* their parents.
Release(d) == [d EXCEPT !.enhancedStyles = FALSE, !.container = FALSE]

\* mammoth reads the bytes as a zip archive: it rejects bytes that are not
\* one, and an archive it cannot parse as a document.
MammothFails(file) == ~file.isZip \/ file.corrupt

\* mammoth.convertToHtml resolves; worldClassHtmlToPdf attaches its container
\* and style element and runs up to its first await (PDFDocument.create).
WordToPdfMammoth ==
    /\ pc = "word_in_mammoth"
    /\ ~MammothFails(File)
    /\ loaded' = loaded + 1
    /\ Emit(<<35, 40, 50>>)
    /\ pc' = "word_in_fonts"
    /\ dom' = Attach(dom)
    /\ UNCHANGED <<aux, toolId, files, options, bytesRead, doc, idx, results,
                   rendered, ret, roundTrip, source>>

WordToPdfMammothFail ==
    /\ pc = "word_in_mammoth"
    /\ MammothFails(File)
    /\ Throw("mammoth")
    /\ UNCHANGED <<aux, dom, toolId, files, options, progress, bytesRead, loaded, doc,
                   idx, results, rendered, roundTrip, source>>

\* The document is created, the fonts embedded and the first page added.
WordToPdfFonts ==
    /\ pc = "word_in_fonts"
    /\ doc' = <<<<1, 1>>>>
    /\ Emit(<<70>>)
    /\ pc' = "word_in_draw"
    /\ UNCHANGED <<aux, dom, toolId, files, options, bytesRead, loaded, idx, results,
                   rendered, ret, roundTrip, source>>

WordToPdfFontsFail ==
    /\ pc = "word_in_fonts"
    /\ Throw("embedFont")
    /\ dom' = Release(dom)
    /\ UNCHANGED <<aux, toolId, files, options, progress, bytesRead, loaded, doc,
                   idx, results, rendered, roundTrip, source>>

\* The element tree is drawn; pdf.save is called.
WordToPdfDraw ==
    /\ pc = "word_in_draw"
    /\ Emit(<<90>>)
    /\ pc' = "word_in_save"
    /\ UNCHANGED <<aux, dom, toolId, files, options, bytesRead, loaded, doc, idx,
                   results, rendered, ret, roundTrip, source>>

WordToPdfDrawFail ==
    /\ pc = "word_in_draw"
    /\ Throw("drawText")
    /\ dom' = Release(dom)
    /\ UNCHANGED <<aux, toolId, files, options, progress, bytesRead, loaded, doc,
                   idx, results, rendered, roundTrip, source>>

WordToPdfSave ==
    /\ pc = "word_in_save"
    /\ Emit(<<100>>)
    /\ results' = <<Result(OutName(StripExt(File.name), "", <<>>, <<>>, "pdf"), Save(doc, TRUE))>>
    /\ ret' = Resolved(results')
    /\ pc' = "done"
    /\ dom' = Release(dom)
    /\ UNCHANGED <<aux, toolId, files, options, bytesRead, loaded, doc, idx,
                   rendered, roundTrip, source>>

WordToPdfSaveFail ==
    /\ pc = "word_in_save"
    /\ Throw("save")
    /\ dom' = Release(dom)
    /\ UNCHANGED <<aux, toolId, files, options, progress, bytesRead, loaded, doc,
                   idx, results, rendered, roundTrip, source>>

\* -------------------------------------------------------------- round trip
\* The outputs of a finished page-by-page split, as the files of a new run.
OutputFile(r) == [name |-> [stem |-> "page", ext |-> "pdf"], doc |-> r.doc,
                  corrupt |-> FALSE, isZip |-> FALSE]
OutputFiles(rs) == [k \in 1..Len(rs) |-> OutputFile(rs[k])]

\* A second processFiles call: merge-pdf over the outputs of the split that
\* just resolved, in the order they were returned.
MergeSplitOutputs ==
    /\ pc = "done"
    /\ toolId = "split-pdf"
    /\ ~RangeMode(options)
    /\ toolId' = "merge-pdf"
    /\ files' = FileArray(OutputFiles(ret.value))
    /\ options' = DefaultOptions
    /\ roundTrip' = TRUE
    /\ source' = doc
    /\ pc' = "idle"
    /\ progress' = <<>>
    /\ bytesRead' = 0
    /\ loaded' = 0
    /\ doc' = <<>>
    /\ idx' = 0
    /\ results' = <<>>
    /\ rendered' = 0
    /\ ret' = Pending
    /\ UNCHANGED <<aux, dom>>

\* -------------------------------------------------------------------- spec
Next ==
    \/ ProcessFilesNoFiles
    \/ ProcessFilesUnknownTool
    \/ ProcessFilesDispatch
    \/ MergeStart
    \/ MergeFile
    \/ MergeFileCorrupt
    \/ MergeSave
    \/ MergeSaveFail
    \/ SplitStart
    \/ SplitLoad
    \/ SplitLoadCorrupt
    \/ SplitRange
    \/ SplitRangeInvalid
    \/ SplitRangeFail
    \/ SplitPage
    \/ SplitPageFail
    \/ SplitFinish
    \/ ImagesStart
    \/ ImagesLoad
    \/ ImagesLoadCorrupt
    \/ ImagesTooManyPages
    \/ ImagesPage
    \/ ImagesPageFail
    \/ ImagesRendered
    \/ ImagesRenderFail
    \/ ImagesEncoded
    \/ ImagesEncodeFail
    \/ ImagesFinish
    \/ CompressStart
    \/ CompressLoad
    \/ CompressLoadCorrupt
    \/ CompressSave
    \/ CompressSaveFail
    \/ PdfToWordStart
    \/ PdfToWordLoad
    \/ PdfToWordLoadCorrupt
    \/ PdfToWordPage
    \/ PdfToWordPageFail
    \/ PdfToWordFinish
    \/ WordToPdfStart
    \/ WordToPdfValidate
    \/ WordToPdfReject
    \/ WordToPdfMammoth
    \/ WordToPdfMammothFail
    \/ WordToPdfFonts
    \/ WordToPdfFontsFail
    \/ WordToPdfDraw
    \/ WordToPdfDrawFail
    \/ WordToPdfSave
    \/ WordToPdfSaveFail
    \/ MergeSplitOutputs

Spec == Init /\ [][Next]_vars

\* ------------------------------------------------------ intelligentTextWrap
\* Strings are sequences of characters. The characters a text is made of: a
\* narrow and a wide letter, the space, and "#", which stands for a
\* character outside the font's encoding.
Chars == {"i", "W", " ", "#"}
MaxText == 5
Texts == UNION {[1..n -> Chars] : n \in 0..MaxText}
MaxWidths == {0, 5, 12, 25}
FontSizes == {10}
\* A font: the advance width of each glyph it can encode, in 1/1000 em.
Helvetica == [c \in {"i", "W", " "} |->
                 CASE c = "i" -> 222 [] c = "W" -> 944 [] c = " " -> 278]

\* text.split(' ')
RECURSIVE SplitFrom(_, _)
SplitFrom(s, cur) ==
    IF s = <<>> THEN <<cur>>
    ELSE IF Head(s) = " " THEN <<cur>> \o SplitFrom(Tail(s), <<>>)
    ELSE SplitFrom(Tail(s), Append(cur, Head(s)))
Split(text) == SplitFrom(text, <<>>)

\* font.widthOfTextAtSize(s, size) throws when s has a character the font
\* cannot encode; otherwise it is the sum of the glyph widths * size / 1000.
Encodable(s, font) == \A k \in 1..Len(s) : s[k] \in DOMAIN font
RECURSIVE WidthUnits(_, _)
WidthUnits(s, font) ==
    IF s = <<>> THEN 0 ELSE font[Head(s)] + WidthUnits(Tail(s), font)
\* font.widthOfTextAtSize(s, fontSize) <= maxWidth
FitsMeasured(s, maxWidth, font, fontSize) ==
    WidthUnits(s, font) * fontSize <= 1000 * maxWidth
\* n * fontSize * 0.55 <= maxWidth
FitsEstimate(n, maxWidth, fontSize) == n * fontSize * 55 <= 100 * maxWidth

\* A test line built without the separating space.
TestLineNoSpace(currentLine, word) == currentLine \o word
\* currentLine + (currentLine ? ' ' : '') + word
TestLine(currentLine, word) ==
    currentLine \o (IF currentLine # <<>> THEN <<" ">> ELSE <<>>) \o word

\* The try/catch around the measurement of a test line: the measured width,
\* or the 0.55 estimate when the measurement throws.
LineFits(testLine, maxWidth, font, fontSize) ==
    IF Encodable(testLine, font)
    THEN FitsMeasured(testLine, maxWidth, font, fontSize)
    ELSE FitsEstimate(Len(testLine), maxWidth, fontSize)

\* if (x) lines.push(x)
PushIf(lines, x) == IF x # <<>> THEN Append(lines, x) ELSE lines

\* The character loop for a word longer than a line. Its measurement has no
\* try/catch, so a throw leaves the whole function.
RECURSIVE BreakWord(_, _, _, _, _, _)
BreakWord(chars, partialWord, lines, maxWidth, font, fontSize) ==
    IF chars = <<>>
    THEN [threw |-> FALSE, lines |-> lines, currentLine |-> partialWord]
    ELSE LET testPartial == Append(partialWord, Head(chars))
         IN  IF ~Encodable(testPartial, font)
             THEN [threw |-> TRUE, lines |-> <<>>, currentLine |-> <<>>]
             ELSE IF FitsMeasured(testPartial, maxWidth, font, fontSize)
             THEN BreakWord(Tail(chars), testPartial, lines,
                            maxWidth, font, fontSize)
             ELSE BreakWord(Tail(chars), <<Head(chars)>>,
                            PushIf(lines, partialWord),
                            maxWidth, font, fontSize)

\* The loop over the words, and the return statement after it.
RECURSIVE WrapWords(_, _, _, _, _, _)
WrapWords(words, currentLine, lines, maxWidth, font, fontSize) ==
    IF words = <<>>
    THEN LET all == PushIf(lines, currentLine)
         IN  [threw |-> FALSE,
              lines |-> IF all # <<>> THEN all ELSE << <<>> >>]
    ELSE LET word == Head(words)
             testLine == TestLine(currentLine, word)
         IN  IF LineFits(testLine, maxWidth, font, fontSize)
             THEN WrapWords(Tail(words), testLine, lines,
                            maxWidth, font, fontSize)
             ELSE IF ~FitsEstimate(Len(word), maxWidth, fontSize)
             THEN LET b == BreakWord(word, <<>>, PushIf(lines, currentLine),
                                     maxWidth, font, fontSize)
                  IN  IF b.threw THEN [threw |-> TRUE, lines |-> <<>>]
                      ELSE WrapWords(Tail(words), b.currentLine, b.lines,
                                     maxWidth, font, fontSize)
             ELSE WrapWords(Tail(words), word, PushIf(lines, currentLine),
                            maxWidth, font, fontSize)

intelligentTextWrap(text, maxWidth, font, fontSize) ==
    WrapWords(Split(text), <<>>, <<>>, maxWidth, font, fontSize)

\* A call of intelligentTextWrap with a text, a width and a font size.
InitWrap ==
    /\ NoRun
    /\ wrapArgs \in [text : Texts, maxWidth : MaxWidths, fontSize : FontSizes]
    /\ wrapRet = [state |-> "called", lines |-> <<>>]
    /\ NoUi
    /\ NoExtract
    /\ NoDraw

WrapOutcome ==
    intelligentTextWrap(wrapArgs.text, wrapArgs.maxWidth, Helvetica,
                        wrapArgs.fontSize)

WrapReturn ==
    /\ wrapRet.state = "called"
    /\ ~WrapOutcome.threw
    /\ wrapRet' = [state |-> "returned", lines |-> WrapOutcome.lines]
    /\ UNCHANGED <<exceptWrap, wrapArgs>>

WrapThrow ==
    /\ wrapRet.state = "called"
    /\ WrapOutcome.threw
    /\ wrapRet' = [state |-> "threw", lines |-> <<>>]
    /\ UNCHANGED <<exceptWrap, wrapArgs>>

NextWrap ==
    \/ WrapReturn
    \/ WrapThrow

SpecWrap == InitWrap /\ [][NextWrap]_vars

\* ------------------------------------------------------------ ToolInterface
\* tool.accept of toolConfigurations: '.pdf' and '.docx,.doc'.
AcceptPdf == <<".", "p", "d", "f">>
AcceptWord == <<".", "d", "o", "c", "x", ",", ".", "d", "o", "c">>
\* The tool props: a multi-file PDF tool (merge-pdf), a single-file PDF tool
\* and word-to-pdf.
ToolConfigurations ==
    {[accept |-> AcceptPdf, multiple |-> TRUE],
     [accept |-> AcceptPdf, multiple |-> FALSE],
     [accept |-> AcceptWord, multiple |-> FALSE]}
\* Names of files a user can drop or select.
UploadNames ==
    {<<"a", ".", "P", "D", "F">>, <<"c", ".", "p">>,
     <<"d", ".", "d", "o", "c", "x">>, <<"e", ".", "d", "o", "c">>,
     <<"f", ".", "d">>, <<"g", ".", "t", "x", "t">>}
MaxDrop == 2
MaxTimers == 2
\* The lists of files of one drop or selection.
Drops == UNION {[1..n -> UploadNames] : n \in 1..MaxDrop}
\* Percentages the pipeline reports while it runs.
Percentages == {50, 100}

\* String.split(sep)
RECURSIVE SplitOn(_, _, _)
SplitOn(s, sep, cur) ==
    IF s = <<>> THEN <<cur>>
    ELSE IF Head(s) = sep THEN <<cur>> \o SplitOn(Tail(s), sep, <<>>)
    ELSE SplitOn(Tail(s), sep, Append(cur, Head(s)))
\* Array.pop(): the last element.
Pop(a) == a[Len(a)]
\* String.toLowerCase(), character by character.
LowerChar(c) ==
    CASE c = "P" -> "p" [] c = "D" -> "d" [] c = "F" -> "f" [] OTHER -> c
LowerCase(cs) == [k \in 1..Len(cs) |-> LowerChar(cs[k])]
\* '.' + file.name.split('.').pop().toLowerCase()
Extension(name) == <<".">> \o LowerCase(Pop(SplitOn(name, ".", <<>>)))
\* A test for membership in the comma-separated list.
InList(list, x) ==
    \E k \in 1..Len(SplitOn(list, ",", <<>>)) : SplitOn(list, ",", <<>>)[k] = x
\* String.includes(x): x occurs in hay as a substring.
Includes(hay, x) ==
    \E k \in 0..(Len(hay) - Len(x)) : SubSeq(hay, k + 1, k + Len(x)) = x
\* tool.accept.includes(extension)
Valid(name) == Includes(tool.accept, Extension(name))
\* files.filter(file => ...)
ValidFiles(fs) == SelectSeq(fs, Valid)
\* files.filter((_, i) => i !== index), index counted from 1 here.
Without(fs, index) ==
    [k \in 1..(Len(fs) - 1) |-> IF k < index THEN fs[k] ELSE fs[k + 1]]

\* A ToolInterface is mounted for a tool.
InitUi ==
    /\ NoRun
    /\ NoWrap
    /\ NoExtract
    /\ NoDraw
    /\ tool \in ToolConfigurations
    /\ uploadedFiles = <<>>
    /\ isProcessing = FALSE
    /\ uiProgress = NoProgress
    /\ uiResults = NoResults
    /\ call = NoCall
    /\ timers = 0

\* A handleFiles that lets every drop through.
NeverTurnedAway(config, fs) == FALSE
\* FileUpload.handleFiles: !tool.multiple && files.length > 1
TurnedAway(config, fs) == ~config.multiple /\ Len(fs) > 1

\* FileUpload.handleFiles, then handleFilesUploaded: a drop of several files
\* on a single-file tool is turned away, otherwise the valid files replace
\* the selection and the results are cleared.
FilesUploaded ==
    \E fs \in Drops :
        /\ ~TurnedAway(tool, fs)
        /\ uploadedFiles' = ValidFiles(fs)
        /\ uiResults' = NoResults
        /\ UNCHANGED <<exceptUi, tool, isProcessing, uiProgress, call,
                       timers>>

RemoveFile ==
    \E index \in 1..Len(uploadedFiles) :
        /\ uploadedFiles' = Without(uploadedFiles, index)
        /\ UNCHANGED <<exceptUi, tool, isProcessing, uiProgress,
                       uiResults, call, timers>>

ClearFiles ==
    /\ uploadedFiles # <<>>
    /\ uploadedFiles' = <<>>
    /\ uiResults' = NoResults
    /\ UNCHANGED <<exceptUi, tool, isProcessing, uiProgress, call,
                   timers>>

\* uploadedFiles.length > 0 && !isProcessing
CanProcess == Len(uploadedFiles) > 0 /\ ~isProcessing

\* A click on the process button: handleProcess up to its await.
HandleProcess ==
    /\ CanProcess
    /\ timers < MaxTimers
    /\ isProcessing' = TRUE
    /\ uiProgress' = [percentage |-> 0, text |-> "Starting..."]
    /\ call' = [state |-> "pending", files |-> uploadedFiles, last |-> 0]
    /\ UNCHANGED <<exceptUi, tool, uploadedFiles, uiResults, timers>>

\* The pipeline calls updateProgress; the percentages of one run do not
\* decrease (last is the latest of them).
UpdateProgress ==
    \E p \in Percentages :
        /\ call.state = "pending"
        /\ p >= call.last
        /\ uiProgress' = [percentage |-> p, text |-> "stage"]
        /\ call' = [call EXCEPT !.last = p]
        /\ UNCHANGED <<exceptUi, tool, uploadedFiles, isProcessing,
                       uiResults, timers>>

\* processFiles resolves: the try block goes on, then the finally block.
ProcessResolved ==
    /\ call.state = "pending"
    /\ uiResults' = [of |-> call.files, count |-> 1]
    /\ uiProgress' = [percentage |-> 100, text |-> "Processing complete!"]
    /\ timers' = timers + 1
    /\ isProcessing' = FALSE
    /\ call' = NoCall
    /\ UNCHANGED <<exceptUi, tool, uploadedFiles>>

\* processFiles rejects: the catch block, then the finally block.
ProcessRejected ==
    /\ call.state = "pending"
    /\ uiProgress' = [percentage |-> 0, text |-> "Error"]
    /\ isProcessing' = FALSE
    /\ call' = NoCall
    /\ UNCHANGED <<exceptUi, tool, uploadedFiles, uiResults, timers>>

\* The callback of setTimeout(..., 2000) runs.
TimerFires ==
    /\ timers > 0
    /\ timers' = timers - 1
    /\ uiProgress' = NoProgress
    /\ UNCHANGED <<exceptUi, tool, uploadedFiles, isProcessing,
                   uiResults, call>>

NextUi ==
    \/ FilesUploaded
    \/ RemoveFile
    \/ ClearFiles
    \/ HandleProcess
    \/ UpdateProgress
    \/ ProcessResolved
    \/ ProcessRejected
    \/ TimerFires

SpecUi == InitUi /\ [][NextUi]_vars

\* What the component renders of its progress state: the ProgressBar is
\* mounted only while isProcessing.
ShownProgress == IF isProcessing THEN uiProgress ELSE NoProgress

\* ------------------------------------------------- PDF -> Word, one page
MaxRuns == 3
\* The items of textContent: a string (possibly empty), the position
\* transform[4], transform[5] and twice the scale transform[0].
Strs == {<<>>, <<"A">>}
Xs == {1, 2}
Ys == {10, 14, 20}
Scales2 == {17, 32}
Items == [str : Strs, x : Xs, y : Ys, scale2 : Scales2]
\* viewport.height of a 792 pt page at scale 1.5.
PageHeight == (792 * 15) \div 10
TextContents == UNION {[1..n -> Items] : n \in 0..MaxRuns}

\* The map of enhancedPdfToWord: text, x, y, fontSize = Math.round(transform[0]).
TextItem(item) ==
    [text |-> item.str, x |-> item.x, y |-> item.y,
     fontSize |-> Round(item.scale2, 2)]
TextItems(items) == [k \in 1..Len(items) |-> TextItem(items[k])]

\* A comparator that puts the higher run first.
ByYDescending(a, b, pageHeight) == (pageHeight - a.y) - (pageHeight - b.y)
\* (a, b) => (pageHeight - b.y) - (pageHeight - a.y)
ByY(a, b, pageHeight) == (pageHeight - b.y) - (pageHeight - a.y)
\* (a, b) => a.x - b.x
ByX(a, b) == a.x - b.x
\* Array.sort is stable: an element goes behind those it does not precede.
RECURSIVE InsertByY(_, _, _)
InsertByY(item, sorted, pageHeight) ==
    IF sorted = <<>> THEN <<item>>
    ELSE IF ByY(item, Head(sorted), pageHeight) < 0 THEN <<item>> \o sorted
    ELSE <<Head(sorted)>> \o InsertByY(item, Tail(sorted), pageHeight)
RECURSIVE SortByY(_, _)
SortByY(items, pageHeight) ==
    IF items = <<>> THEN <<>>
    ELSE InsertByY(items[Len(items)],
                   SortByY(SubSeq(items, 1, Len(items) - 1), pageHeight),
                   pageHeight)
RECURSIVE InsertByX(_, _)
InsertByX(item, sorted) ==
    IF sorted = <<>> THEN <<item>>
    ELSE IF ByX(item, Head(sorted)) < 0 THEN <<item>> \o sorted
    ELSE <<Head(sorted)>> \o InsertByX(item, Tail(sorted))
RECURSIVE SortByX(_)
SortByX(items) ==
    IF items = <<>> THEN <<>>
    ELSE InsertByX(items[Len(items)], SortByX(SubSeq(items, 1, Len(items) - 1)))

Abs(n) == IF n < 0 THEN 0 - n ELSE n
\* A band as wide as the whole font size.
SameBandWide(item, lastY) == Abs(item.y - lastY) <= item.fontSize
\* Math.abs(item.y - lastY) <= item.fontSize * 0.5
SameBand(item, lastY) == 2 * Abs(item.y - lastY) <= item.fontSize

\* The loop of groupTextByBlocks from the second item on, and the push after
\* it. currentBlock is never empty here, so the else branch always pushes.
RECURSIVE GroupFrom(_, _, _, _)
GroupFrom(sorted, blocks, currentBlock, lastY) ==
    IF sorted = <<>> THEN Append(blocks, SortByX(currentBlock))
    ELSE LET item == Head(sorted)
         IN  IF SameBand(item, lastY)
             THEN GroupFrom(Tail(sorted), blocks, Append(currentBlock, item),
                            item.y)
             ELSE GroupFrom(Tail(sorted), Append(blocks, SortByX(currentBlock)),
                            <<item>>, item.y)

groupTextByBlocks(textItems, pageHeight) ==
    IF textItems = <<>> THEN <<>>
    ELSE LET sorted == SortByY(textItems, pageHeight)
         IN  GroupFrom(Tail(sorted), <<>>, <<Head(sorted)>>, Head(sorted).y)

\* block.map(item => item.text).join(' ')
RECURSIVE JoinTexts(_)
JoinTexts(block) ==
    IF block = <<>> THEN <<>>
    ELSE IF Len(block) = 1 THEN block[1].text
    ELSE block[1].text \o <<" ">> \o JoinTexts(Tail(block))
\* String.trim()
RECURSIVE TrimStart(_)
TrimStart(cs) ==
    IF cs # <<>> /\ Head(cs) = " " THEN TrimStart(Tail(cs)) ELSE cs
RECURSIVE TrimEnd(_)
TrimEnd(cs) ==
    IF cs # <<>> /\ cs[Len(cs)] = " "
    THEN TrimEnd(SubSeq(cs, 1, Len(cs) - 1)) ELSE cs
Trim(cs) == TrimEnd(TrimStart(cs))
RECURSIVE SumFontSize(_)
SumFontSize(block) ==
    IF block = <<>> THEN 0 ELSE Head(block).fontSize + SumFontSize(Tail(block))
\* The class chosen from avgFontSize = sum / block.length.
CssClass(block) ==
    IF SumFontSize(block) > 14 * Len(block) THEN "header-1"
    ELSE IF SumFontSize(block) > 12 * Len(block) THEN "header-2"
    ELSE IF SumFontSize(block) > 11 * Len(block) THEN "header-3"
    ELSE "paragraph"
\* The paragraphs renderTextBlocksAsHtml appends after the page heading: one
\* per block whose trimmed text is not empty.
RECURSIVE renderTextBlocksAsHtml(_)
renderTextBlocksAsHtml(blocks) ==
    IF blocks = <<>> THEN <<>>
    ELSE LET blockText == Trim(JoinTexts(Head(blocks)))
         IN  (IF blockText = <<>> THEN <<>>
              ELSE <<[cssClass |-> CssClass(Head(blocks)), text |-> blockText]>>)
             \o renderTextBlocksAsHtml(Tail(blocks))

\* getTextContent has resolved for a page.
InitExtract ==
    /\ NoRun
    /\ NoWrap
    /\ NoUi
    /\ NoDraw
    /\ textContent \in TextContents
    /\ textBlocks = <<>>
    /\ pageHtml = <<>>
    /\ extracted = "items"

ExtractBlocks ==
    /\ extracted = "items"
    /\ textBlocks' = groupTextByBlocks(TextItems(textContent), PageHeight)
    /\ extracted' = "blocks"
    /\ UNCHANGED <<exceptExtract, textContent, pageHtml>>

ExtractHtml ==
    /\ extracted = "blocks"
    /\ pageHtml' = renderTextBlocksAsHtml(textBlocks)
    /\ extracted' = "html"
    /\ UNCHANGED <<exceptExtract, textContent, textBlocks>>

NextExtract ==
    \/ ExtractBlocks
    \/ ExtractHtml

SpecExtract == InitExtract /\ [][NextExtract]_vars

\* ------------------------------------------------------------------------
\* worldClassHtmlToPdf: the walk over the element tree that draws the text.
\* Lengths are in hundredths of a point.

\* getPageSize(size): sizes[size] || sizes["A4"]
getPageSize(size) ==
    CASE size = "A3" -> [width |-> 84189, height |-> 119055]
      [] size = "A5" -> [width |-> 42094, height |-> 59528]
      [] size = "Letter" -> [width |-> 61200, height |-> 79200]
      [] size = "Legal" -> [width |-> 61200, height |-> 100800]
      [] size = "Tabloid" -> [width |-> 79200, height |-> 122400]
      [] OTHER -> [width |-> 59528, height |-> 84189]
\* getMargin(margin): margins[margin] || margins["normal"]
getMargin(margin) ==
    CASE margin = "narrow" -> 3600
      [] margin = "wide" -> 10800
      [] margin = "minimal" -> 1800
      [] OTHER -> 7200

\* A node of the tree. A text node stands for its trimmed, sanitised text by
\* the number of lines intelligentTextWrap returns for it (0: blank text);
\* the sanitised text has only characters the standard fonts encode.
TextNode(n) ==
    [nodeType |-> "text", tagName |-> Undefined, className |-> "",
     lines |-> n, childNodes |-> <<>>]
Element(tagName, className, childNodes) ==
    [nodeType |-> "element", tagName |-> tagName, className |-> className,
     lines |-> 0, childNodes |-> childNodes]

MaxBlocks == 2
LineCounts == {0, 1, 22}
TextNodes == {TextNode(n) : n \in LineCounts}
Inlines == {Element(t, "", <<TextNode(1)>>) : t \in {"a", "strong"}}
BlockStyles == {<<"h1", "title">>, <<"p", "">>, <<"p", "right">>,
                <<"p", "caption">>}
Blocks ==
    {Element(b[1], b[2], <<k>>) :
        b \in BlockStyles, k \in (TextNodes \ {TextNode(0)}) \cup Inlines}
Containers ==
    UNION {[1..n -> Blocks \cup {TextNode(0), TextNode(1)}] :
              n \in 0..MaxBlocks}
Layouts == {[pageSize |-> "A5", margin |-> "wide"],
            [pageSize |-> Undefined, margin |-> Undefined]}

\* className.includes(s), for the class names of the tree
ClassIncludes(className, s) ==
    \/ className = s
    \/ className = "subtitle" /\ s = "title"

\* The style switch of processAdvancedElement: the locals font, size, color,
\* marginBottom and alignment after it.
ResolveStyle(tagName, className, currentFont, currentSize) ==
    LET d == [font |-> currentFont, size |-> currentSize, color |-> "black",
              marginBottom |-> 0, alignment |-> "left"]
    IN  CASE tagName = "h1" ->
               IF ClassIncludes(className, "title")
               THEN [d EXCEPT !.font = "boldItalic", !.size = 24,
                              !.marginBottom = 2400, !.alignment = "center"]
               ELSE [d EXCEPT !.font = "bold", !.size = 20,
                              !.marginBottom = 2000]
          [] tagName = "h2" ->
               [d EXCEPT !.font = "bold", !.size = 16, !.marginBottom = 1600,
                         !.alignment = IF ClassIncludes(className, "subtitle")
                                       THEN "center" ELSE "left"]
          [] tagName = "h3" ->
               [d EXCEPT !.font = "bold", !.size = 14, !.marginBottom = 1400]
          [] tagName = "h4" ->
               [d EXCEPT !.font = "helveticaBold", !.size = 12,
                         !.marginBottom = 1200]
          [] tagName \in {"strong", "b"} -> [d EXCEPT !.font = "bold"]
          [] tagName \in {"em", "i"} -> [d EXCEPT !.font = "italic"]
          [] tagName = "a" -> [d EXCEPT !.color = "link"]
          [] tagName = "p" ->
               IF ClassIncludes(className, "caption")
               THEN [d EXCEPT !.font = "italic", !.size = 10,
                              !.marginBottom = 800, !.alignment = "center",
                              !.color = "grey"]
               ELSE IF ClassIncludes(className, "center")
               THEN [d EXCEPT !.marginBottom = 800, !.alignment = "center"]
               ELSE IF ClassIncludes(className, "right")
               THEN [d EXCEPT !.marginBottom = 800, !.alignment = "right"]
               ELSE [d EXCEPT !.marginBottom = 800]
          [] tagName = "blockquote" ->
               [d EXCEPT !.font = "italic", !.marginBottom = 1600]
          [] tagName = "li" -> [d EXCEPT !.marginBottom = 600]
          [] OTHER -> d

BlockTags == {"h1", "h2", "h3", "h4", "p", "div", "li", "blockquote"}

\* pdf.addPage([pageSize.width, pageSize.height])
NewPage(pageSize) == [size |-> pageSize, texts |-> <<>>, footer |-> 0]

PageSize == getPageSize(StrOr(layout.pageSize, "A4"))
Margin == getMargin(StrOr(layout.margin, "normal"))

\* A check that never breaks the page.
KeepPage(p, pageSize, margin) == p
\* checkAdvancedPageBreak()
checkAdvancedPageBreak(p, pageSize, margin) ==
    IF p.cursorY < margin + 3000
    THEN [p EXCEPT
            !.pages = Append([@ EXCEPT ![Len(@)].footer = p.currentPage],
                             NewPage(pageSize)),
            !.cursorY = pageSize.height - margin,
            !.currentPage = @ + 1]
    ELSE p

\* page.drawText(line, {x, y: cursorY, size, font, color}) on the current
\* page, x being computed from the alignment; parent is the element the
\* text node is a child of.
DrawText(p, style, parent) ==
    [p EXCEPT !.pages[Len(p.pages)].texts =
        Append(@, [y |-> p.cursorY, font |-> style.font, size |-> style.size,
                   color |-> style.color, alignment |-> style.alignment,
                   parent |-> parent])]

\* The call of processAdvancedElement for a node: its locals after the switch.
Frame(node, currentFont, currentSize) ==
    [node |-> node, next |-> 1] @@
    ResolveStyle(node.tagName, node.className, currentFont, currentSize)

Top == walk.stack[Len(walk.stack)]
Child == Top.node.childNodes[Top.next]
\* The loop over childNodes moves on to the next child.
Advanced == [walk.stack EXCEPT ![Len(walk.stack)].next = @ + 1]

\* An element tree to render, on pages of a size and with a margin.
InitDraw ==
    /\ NoRun
    /\ NoWrap
    /\ NoUi
    /\ NoExtract
    /\ container \in Containers
    /\ layout \in Layouts
    /\ walk = [NoWalk EXCEPT !.state = "ready"]
    /\ pdf = NoPdf

\* The first page, and the loop over container.childNodes with the default
\* font and size.
DrawBegin ==
    /\ walk.state = "ready"
    /\ pdf' = [pages |-> <<NewPage(PageSize)>>,
               cursorY |-> PageSize.height - Margin,
               currentPage |-> 1]
    /\ walk' = [state |-> "walking",
                stack |-> <<[node |-> Element("div", "pdf-container",
                                              container),
                             next |-> 1, font |-> "regular", size |-> 12,
                             color |-> "black", marginBottom |-> 0,
                             alignment |-> "left"]>>,
                left |-> 0]
    /\ UNCHANGED <<exceptDraw, container, layout>>

\* processAdvancedElement(child, font, size) for an element: the switch,
\* then the loop over its children.
EnterElement ==
    /\ walk.state = "walking"
    /\ Top.next <= Len(Top.node.childNodes)
    /\ Child.nodeType = "element"
    /\ walk' = [walk EXCEPT
                  !.stack = Append(Advanced, Frame(Child, Top.font, Top.size))]
    /\ UNCHANGED <<exceptDraw, container, layout, pdf>>

\* processAdvancedElement(child, font, size) for a text node: blank text is
\* skipped, other text is wrapped into its lines.
EnterText ==
    /\ walk.state = "walking"
    /\ Top.next <= Len(Top.node.childNodes)
    /\ Child.nodeType = "text"
    /\ walk' = IF Child.lines = 0
               THEN [walk EXCEPT !.stack = Advanced]
               ELSE [walk EXCEPT
                       !.state = "text",
                       !.stack = Append(Advanced,
                                        Frame(Child, Top.font, Top.size)),
                       !.left = Child.lines]
    /\ UNCHANGED <<exceptDraw, container, layout, pdf>>

\* One turn of drawAdvancedText's loop over the lines: the page-break check,
\* the line drawn at cursorY, cursorY moved down by fontSize * 1.3.
DrawLine ==
    /\ walk.state = "text"
    /\ LET parent == walk.stack[Len(walk.stack) - 1].node
           checked == checkAdvancedPageBreak(pdf, PageSize, Margin)
           drawn == DrawText(checked, Top,
                             [tagName |-> parent.tagName,
                              className |-> parent.className])
       IN  pdf' = [drawn EXCEPT !.cursorY = @ - Top.size * 130]
    /\ walk' = IF walk.left > 1
               THEN [walk EXCEPT !.left = @ - 1]
               ELSE [walk EXCEPT !.state = "walking", !.left = 0,
                                 !.stack = SubSeq(@, 1, Len(@) - 1)]
    /\ UNCHANGED <<exceptDraw, container, layout>>

\* The end of processAdvancedElement for an element: the bottom margin and
\* a page-break check after a block element.
LeaveElement ==
    /\ walk.state = "walking"
    /\ Len(walk.stack) > 1
    /\ Top.next > Len(Top.node.childNodes)
    /\ pdf' = IF Top.node.tagName \in BlockTags
              THEN checkAdvancedPageBreak(
                       [pdf EXCEPT !.cursorY = @ - Top.marginBottom],
                       PageSize, Margin)
              ELSE pdf
    /\ walk' = [walk EXCEPT !.stack = SubSeq(@, 1, Len(@) - 1)]
    /\ UNCHANGED <<exceptDraw, container, layout>>

\* After the last child of the container: the page number of the last page,
\* and the result's info with currentPage as the number of pages.
DrawEnd ==
    /\ walk.state = "walking"
    /\ Len(walk.stack) = 1
    /\ Top.next > Len(Top.node.childNodes)
    /\ pdf' = [pdf EXCEPT !.pages[Len(pdf.pages)].footer = pdf.currentPage]
    /\ walk' = [walk EXCEPT !.state = "done"]
    /\ UNCHANGED <<exceptDraw, container, layout>>

NextDraw ==
    \/ DrawBegin
    \/ EnterElement
    \/ EnterText
    \/ DrawLine
    \/ LeaveElement
    \/ DrawEnd

SpecDraw == InitDraw /\ [][NextDraw]_vars

\* ================================================================== claims
SplitRun == toolId = "split-pdf" /\ ~roundTrip
\* The pages from..to (1-based, inclusive) of a document.
PagesOf(d, from, to) == SubSeq(d, from, to)

\* C1: a split-pdf run asking for the range fromPage..toPage (splitType
\* 'range', 1 <= from <= to <= pageCount) resolves with exactly one document
\* holding the source pages from..to in order, to - from + 1 pages.
C1_RangeFromToPageYieldsOneDocument ==
    (/\ SplitRun /\ pc = "done"
     /\ options.splitType = "range"
     /\ options.fromPage.t = "num" /\ options.toPage.t = "num"
     /\ 1 <= options.fromPage.n
     /\ options.fromPage.n <= options.toPage.n
     /\ options.toPage.n <= Len(File.doc))
    => /\ Len(ret.value) = 1
       /\ ret.value[1].doc = PagesOf(File.doc, options.fromPage.n, options.toPage.n)
       /\ Len(ret.value[1].doc) = options.toPage.n - options.fromPage.n + 1

\* The total length and the concatenation of a sequence of documents.
RECURSIVE SumLen(_)
SumLen(ds) == IF ds = <<>> THEN 0 ELSE Len(Head(ds)) + SumLen(Tail(ds))
RECURSIVE Concat(_)
Concat(ds) == IF ds = <<>> THEN <<>> ELSE Head(ds) \o Concat(Tail(ds))
FileDocs == [k \in 1..Len(files.items) |-> files.items[k].doc]
\* C2: merge-pdf over a non-empty list of PDFs resolves with exactly one
\* result; its document is the files' documents concatenated in the order
\* the files were supplied, and its page count is the sum of theirs.
C2_MergeConcatenatesInOrder ==
    (toolId = "merge-pdf" /\ pc = "done")
    => /\ Len(ret.value) = 1
       /\ ret.value[1].doc = Concat(FileDocs)
       /\ Len(ret.value[1].doc) = SumLen(FileDocs)
C2_Witness ==
    /\ toolId = "merge-pdf" /\ pc = "done" /\ ~roundTrip
    /\ Len(files.items) = 2
    /\ Len(files.items[1].doc) = 2
    /\ Len(files.items[2].doc) = 3
    /\ ret.value[1].doc = <<<<1, 1>>, <<1, 2>>, <<2, 1>>, <<2, 2>>, <<2, 3>>>>

\* C3 as stated: a page-by-page split of an N-page PDF resolves with N
\* results named <base>_page_1.pdf .. <base>_page_N.pdf, result i holding
\* exactly page i.
C3_Original ==
    (SplitRun /\ pc = "done" /\ options.splitType = "pages")
    => /\ Len(ret.value) = Len(File.doc)
       /\ \A i \in 1..Len(ret.value) :
            /\ ret.value[i].name =
                 OutName([stem |-> File.name.stem, ext |-> ""], "_page_", Digits(i), <<>>, "pdf")
            /\ ret.value[i].doc = <<File.doc[i]>>
\* Left-padding of a digit string with zeros to three digits.
RECURSIVE ZeroPad3(_)
ZeroPad3(ds) == IF Len(ds) < 3 THEN ZeroPad3(<<0>> \o ds) ELSE ds
\* C3 amended: the results are named <base>_page_001.pdf .. with the page
\* number zero-padded to three digits; result i holds exactly page i.
C3_SplitPagesPaddedNames ==
    (SplitRun /\ pc = "done" /\ options.splitType = "pages")
    => /\ Len(ret.value) = Len(File.doc)
       /\ \A i \in 1..Len(ret.value) :
            /\ ret.value[i].name =
                 OutName([stem |-> File.name.stem, ext |-> ""], "_page_",
                         ZeroPad3(Digits(i)), <<>>, "pdf")
            /\ ret.value[i].doc = <<File.doc[i]>>
C3_Witness ==
    /\ SplitRun /\ pc = "done" /\ options.splitType = "pages"
    /\ Len(File.doc) = 3
    /\ Len(ret.value) = 3
    /\ ret.value[3].name.n1 = <<0, 0, 3>>

\* A range whose two ends are page numbers with from > to.
Inverted(f, t) == f.t = "num" /\ t.t = "num" /\ t.n >= 1 /\ f.n > t.n
InvertedRequest ==
    /\ SplitRun
    /\ options.splitType = "range"
    /\ \/ Inverted(options.fromPage, options.toPage)
       \/ \E k \in 1..Len(options.ranges.items) :
            Inverted(options.ranges.items[k].from, options.ranges.items[k].to)
\* The run has ended and neither the document nor a collaborator failed.
EndedWithoutStageFault ==
    /\ pc \in {"done", "failed"}
    /\ files.isArray /\ files.items # <<>>
    /\ ret.cause \notin {"load", "save"}
\* C4: a split-pdf range request with an inverted range (from > to) never
\* resolves, whether the range comes in options.fromPage/toPage or in
\* options.ranges: it fails with the invalid-range error and no output.
C4_InvertedRangeRejected ==
    (InvertedRequest /\ EndedWithoutStageFault)
    => /\ ret.state = "rejected"
       /\ ret.cause = "Invalid range"
       /\ ret.value = <<>>

\* C5: splitting a PDF into single pages and merging the outputs in the
\* order returned gives a document with the pages of the original, in the
\* original order, hence with the same page count.
C5_SplitThenMergeRoundTrip ==
    (roundTrip /\ pc = "done")
    => /\ Len(ret.value) = 1
       /\ ret.value[1].doc = source
       /\ Len(ret.value[1].doc) = Len(source)
C5_Witness ==
    /\ roundTrip /\ pc = "done"
    /\ Len(source) = 3
    /\ Len(files.items) = 3

UnknownToolError == ret.state = "rejected" /\ ret.cause = "Unknown tool"
EmptyInputError ==
    ret.state = "rejected" /\ ret.cause = "No files supplied to processFiles"
NothingDoneYet == progress = <<>> /\ bytesRead = 0 /\ loaded = 0
\* C6 as stated: every toolId outside the six fails with the unknown-tool
\* error, every empty or non-list file argument fails with the empty-input
\* error, both before any read and any progress event.
C6_Original ==
    pc # "idle"
    => /\ toolId \notin ToolIds => (UnknownToolError /\ NothingDoneYet)
       /\ (~files.isArray \/ files.items = <<>>) => (EmptyInputError /\ NothingDoneYet)
\* C6 amended: the empty-input check comes first. An empty or non-list file
\* argument fails with the empty-input error whatever the toolId; a toolId
\* outside the six fails with the unknown-tool error when the file list is
\* non-empty; both before any read and any progress event.
C6_ValidationBeforeWork ==
    pc # "idle"
    => /\ (toolId \notin ToolIds /\ files.isArray /\ files.items # <<>>)
            => (UnknownToolError /\ NothingDoneYet)
       /\ (~files.isArray \/ files.items = <<>>) => (EmptyInputError /\ NothingDoneYet)
       /\ (toolId \in ToolIds /\ files.isArray /\ files.items # <<>>)
            => ~(UnknownToolError \/ EmptyInputError)
C6_Witness ==
    /\ pc = "failed"
    /\ toolId \notin ToolIds
    /\ files.isArray /\ files.items # <<>>
    /\ UnknownToolError

InvalidRangeError == ret.state = "rejected" /\ ret.cause = "Invalid range"
\* C7 as stated: an invalid page range is rejected before the file's bytes
\* are read, before the document is loaded and before any progress event.
C7_Original == InvalidRangeError => NothingDoneYet
\* from > to once from is raised to 1 and to capped at the page count n.
ClampedInverted(r, n) == Gt(RangeFrom(r), RangeTo(r, n))
\* C7 amended: a range of options.ranges with from > to (after clamping) is
\* always rejected, and the rejection comes after the first progress event,
\* the read of the file and the load of the document, but before any page of
\* that range is copied: the outputs built are those of the earlier ranges.
C7_InvalidRangeRejectedAfterLoad ==
    /\ InvalidRangeError
         => /\ progress # <<>> /\ progress[1] = 5
            /\ bytesRead = 1 /\ loaded = 1
            /\ Len(results) = idx
            /\ ClampedInverted(options.ranges.items[idx + 1], Len(doc))
            /\ ret.value = <<>>
    /\ (SplitRun /\ pc = "done" /\ RangeMode(options))
         => \A k \in 1..Len(options.ranges.items) :
              ~ClampedInverted(options.ranges.items[k], Len(doc))
C7_Witness ==
    /\ InvalidRangeError
    /\ Len(doc) = 3
    /\ idx = 1
    /\ Len(results) = 1

\* The errors processFiles raises itself, outside any tool.
ValidationCauses == {"No files supplied to processFiles", "Unknown tool"}
\* C8: a run in which a stage fails ends rejected with one message made of
\* the tool's prefix and the cause, and hands the caller no result, also
\* when outputs had already been built; results reach the caller only from
\* a run that completed.
C8_FailureReturnsNoResults ==
    /\ pc = "failed"
         => /\ ret.state = "rejected"
            /\ ret.value = <<>>
            /\ ret.cause # ""
            /\ ret.cause \notin ValidationCauses => ret.prefix = ErrorPrefix(toolId)
    /\ ret.state = "resolved" => pc = "done"
    /\ ret.value # <<>> => (pc = "done" /\ ret.value = results)
C8_Witness ==
    /\ pc = "failed"
    /\ SplitRun /\ RangeMode(options)
    /\ idx = 1
    /\ Len(results) = 1
    /\ ret.prefix = "Enhanced split failed"

\* C9: the percentages handed to the progress callback during one run are
\* non-decreasing and within 0..100, and 100 comes only as the last event
\* of a run that completed.
C9_ProgressMonotone ==
    /\ \A i \in 1..Len(progress) : progress[i] \in 0..100
    /\ \A i \in 1..Len(progress) : \A j \in i..Len(progress) :
         progress[i] <= progress[j]
    /\ \A i \in 1..Len(progress) :
         progress[i] = 100 => (i = Len(progress) /\ pc = "done")
C9_Witness ==
    /\ pc = "done"
    /\ toolId = "split-pdf"
    /\ RangeMode(options)
    /\ Len(options.ranges.items) = 2
    /\ progress = <<5, 10, 45, 100>>

\* options.maxPages when it is a non-zero number, else 100.
ConfiguredMax ==
    IF options.maxPages.t = "num" /\ options.maxPages.n # 0
    THEN options.maxPages.n ELSE 100
\* C10: pdf-to-images on a PDF with more pages than the configured maximum
\* (options.maxPages when set, else 100) fails with the page-limit error
\* before any page is rendered, and returns no image.
C10_PageLimitBeforeRendering ==
    (/\ toolId = "pdf-to-images"
     /\ loaded >= 1
     /\ Len(File.doc) > ConfiguredMax)
    => /\ pc = "failed"
       /\ ret.state = "rejected" /\ ret.cause = "exceeds limit"
       /\ rendered = 0
       /\ results = <<>> /\ ret.value = <<>>
C10_Witness ==
    /\ toolId = "pdf-to-images"
    /\ pc = "failed" /\ ret.cause = "exceeds limit"
    /\ options.maxPages = Undef
    /\ Len(File.doc) = 101

\* --------------------------------------------------------------------- C11
\* lines.join(' ')
RECURSIVE JoinLines(_)
JoinLines(lines) ==
    IF lines = <<>> THEN <<>>
    ELSE IF Len(lines) = 1 THEN lines[1]
    ELSE lines[1] \o <<" ">> \o JoinLines(Tail(lines))
NonEmpty(w) == w # <<>>
\* The word sequence of a text: its maximal runs of non-space characters.
Words(text) == SelectSeq(Split(text), NonEmpty)
NotSpace(c) == c # " "
\* The characters of the lines, in order, without the spaces.
RECURSIVE Flatten(_)
Flatten(lines) ==
    IF lines = <<>> THEN <<>> ELSE lines[1] \o Flatten(Tail(lines))
Letters(lines) == SelectSeq(Flatten(lines), NotSpace)
WrapReturned == wrapRet.state = "returned" /\ wrapArgs.text # <<>>
\* No word of the text is over the 0.55 estimate of the line width.
NoLongWord ==
    \A k \in 1..Len(Split(wrapArgs.text)) :
        FitsEstimate(Len(Split(wrapArgs.text)[k]), wrapArgs.maxWidth,
                     wrapArgs.fontSize)
\* C11 as stated: the lines intelligentTextWrap returns for a non-empty text
\* are a non-empty sequence, and joined with single spaces they have the
\* word sequence of the text, whatever the width.
C11_Original ==
    WrapReturned =>
        /\ wrapRet.lines # <<>>
        /\ Words(JoinLines(wrapRet.lines)) = Words(wrapArgs.text)
\* C11: the lines intelligentTextWrap returns for a non-empty text are a
\* non-empty sequence whose non-space characters, read in order, are those
\* of the text; joined with single spaces they have the word sequence of the
\* text when no word is over the 0.55 estimate of the line width.
C11_WrapKeepsCharactersAndShortWords ==
    WrapReturned =>
        /\ wrapRet.lines # <<>>
        /\ Letters(wrapRet.lines) = Letters(<<wrapArgs.text>>)
        /\ NoLongWord =>
               Words(JoinLines(wrapRet.lines)) = Words(wrapArgs.text)
\* A text of several words that fit the estimate, wrapped onto several lines.
C11_Witness ==
    /\ WrapReturned
    /\ NoLongWord
    /\ Len(Words(wrapArgs.text)) >= 2
    /\ Len(wrapRet.lines) >= 2

\* --------------------------------------------------------------------- C12
WordToPdfRun ==
    toolId = "word-to-pdf" /\ files.isArray /\ Len(files.items) > 0
\* A .docx file by name and by zip signature.
IsDocx(file) == file.name.ext = "docx" /\ file.isZip
\* The run is past the validation of the file.
PastValidation ==
    pc \notin {"idle", "word_in_start", "word_in_validate"}
\* C12: a word-to-pdf run whose file is not a .docx file by name and by zip
\* signature is rejected with "Only .docx files supported" before mammoth is
\* called on it.
C12_NonDocxRejectedUpFront ==
    (WordToPdfRun /\ ~IsDocx(File) /\ PastValidation) =>
        /\ pc = "failed"
        /\ ret.cause = "Only .docx files supported"
        /\ loaded = 0

\* --------------------------------------------------------------------- C13
\* The values of a field that the pipeline knows.
KnownFormat(f) == ToLowerCase(f) \in {"png", "jpeg"}
KnownScale(v) == v.t = "num" /\ v.n \in 5..50
KnownLevel(v) == v.t = "num" /\ v.n \in 1..3
DefaultLevel == [nan |-> FALSE, n |-> 2]
\* C13: with an absent or unrecognised imageFormat every image is named
\* .png, with an absent or unrecognised imageScale every canvas is created
\* at scale 2.0, and with an absent or unrecognised compressionLevel the
\* output is named <base>_compressed_L2.pdf.
C13_UnrecognisedOptionFallsBack ==
    /\ (toolId = "pdf-to-images" /\ ~KnownFormat(options.imageFormat)) =>
           \A k \in 1..Len(results) : results[k].name.ext = "png"
    /\ (toolId = "pdf-to-images" /\ ~KnownScale(options.imageScale)) =>
           \A k \in 1..Len(dom.canvases) :
               dom.canvases[k] \in {Canvas(20), ResetCanvas(Canvas(20))}
    /\ (toolId = "compress-pdf" /\ pc = "done"
            /\ ~KnownLevel(options.compressionLevel)) =>
           results[1].name = CompressedName(StripPdf(File.name), DefaultLevel)

\* --------------------------------------------------------------------- C16
RunEnded == pc \in {"done", "failed"}
\* The canvases that still hold pixels.
LiveCanvases ==
    {k \in 1..Len(dom.canvases) :
        dom.canvases[k].width # 0 \/ dom.canvases[k].height # 0}
\* C16: when a run has ended, resolved or rejected, the container and the
\* style element of Word->PDF are detached from the document and no canvas
\* of PDF->images has non-zero dimensions.
C16_ResourcesReleasedOnEveryExit ==
    RunEnded =>
        /\ ~dom.container
        /\ ~dom.enhancedStyles
        /\ LiveCanvases = {}

\* --------------------------------------------------------------------- C17
\* C17: at every point of a pdf-to-images run at most one canvas has non-zero
\* dimensions, and it is the one created last; between two iterations of
\* the page loop, and once the run has resolved, none has.
C17_AtMostOneLiveCanvas ==
    /\ Cardinality(LiveCanvases) <= 1
    /\ LiveCanvases \subseteq {Len(dom.canvases)}
    /\ pc \in {"images_pages", "done"} => LiveCanvases = {}
\* The second page is being rendered: its canvas is live, the first is reset.
C17_Witness ==
    /\ pc = "images_render"
    /\ Len(dom.canvases) >= 2
    /\ LiveCanvases = {Len(dom.canvases)}

\* --------------------------------------------------------------------- C14
\* The extension of the file is an entry of the tool's accept list.
Accepted(name) == InList(tool.accept, Extension(name))
\* C14: every file of the list ToolInterface hands to processFiles has an
\* extension that is an entry of the tool's accept list.
C14_PassedFilesHaveAcceptedExtension ==
    call.state = "pending" =>
        \A k \in 1..Len(call.files) : Accepted(call.files[k])

\* --------------------------------------------------------------------- C15
\* C15: when the run ToolInterface awaits fails, the component then shows
\* the error message, is no longer processing, still has the files it had,
\* and its process button is enabled if there are files.
C15_FailureShownAndRetryable ==
    [][ProcessRejected =>
          /\ ShownProgress'.text = "Error"
          /\ ~isProcessing'
          /\ uploadedFiles' = uploadedFiles
          /\ uploadedFiles # <<>> => CanProcess']_vars

\* --------------------------------------------------------------------- C18
Grouped == extracted \in {"blocks", "html"}
\* C18: groupTextByBlocks emits the blocks of a page top of page first: no
\* run of a block lies below (has a smaller y than) a run of a later block.
C18_BlocksTopOfPageFirst ==
    Grouped =>
        \A i \in 1..Len(textBlocks) : \A j \in (i + 1)..Len(textBlocks) :
            \A a \in 1..Len(textBlocks[i]) : \A b \in 1..Len(textBlocks[j]) :
                textBlocks[i][a].y >= textBlocks[j][b].y

\* --------------------------------------------------------------------- C19
\* The places of a sorted sequence where the vertical delta to the run
\* before is more than half the run's font size.
Breaks(sq) ==
    {k \in 2..Len(sq) : 2 * Abs(sq[k].y - sq[k - 1].y) > sq[k].fontSize}
\* How often e occurs in the sequence sq.
Count(e, sq) == Cardinality({k \in 1..Len(sq) : sq[k] = e})
RECURSIVE FlattenBlocks(_)
FlattenBlocks(blocks) ==
    IF blocks = <<>> THEN <<>> ELSE Head(blocks) \o FlattenBlocks(Tail(blocks))
\* C19: two consecutive runs of the sorted sequence are in the same block
\* exactly when their vertical delta is at most half the font size of the
\* later run; every run is in exactly one block; inside a block x ascends.
C19_GroupingRule ==
    (Grouped /\ textContent # <<>>) =>
        LET input == TextItems(textContent)
            sorted == SortByY(input, PageHeight)
            breaks == Breaks(sorted)
            \* the number of the block the k-th sorted run belongs in
            blockOf == [k \in 1..Len(sorted) |->
                           1 + Cardinality({b \in breaks : b <= k})]
            flat == FlattenBlocks(textBlocks)
        IN  /\ Len(textBlocks) = 1 + Cardinality(breaks)
            /\ \A j \in 1..Len(textBlocks) :
                   /\ Len(textBlocks[j]) =
                          Cardinality({m \in 1..Len(sorted) : blockOf[m] = j})
                   /\ \A k \in 1..Len(sorted) :
                          Count(sorted[k], textBlocks[j]) =
                              Cardinality({m \in 1..Len(sorted) :
                                  blockOf[m] = j /\ sorted[m] = sorted[k]})
                   /\ \A a \in 1..(Len(textBlocks[j]) - 1) :
                          textBlocks[j][a].x <= textBlocks[j][a + 1].x
            /\ Len(flat) = Len(input)
            /\ \A k \in 1..Len(input) :
                   Count(input[k], flat) = Count(input[k], input)
\* Three runs in two blocks: two runs on different baselines of one band,
\* not in x order in the input, and a third run in a band of its own.
C19_Witness ==
    /\ Grouped
    /\ Len(textContent) = 3
    /\ Len(textBlocks) = 2
    /\ \E j \in 1..2 :
           /\ Len(textBlocks[j]) = 2
           /\ textBlocks[j][1].x < textBlocks[j][2].x
           /\ textBlocks[j][1].y > textBlocks[j][2].y

\* --------------------------------------------------------------------- C20
HasText(item) == item.str # <<>>
\* C20: a page without runs yields no block, and the blocks of a page and
\* what is rendered from them are what the page's runs with non-empty text
\* alone would give.
C20_EmptyRunsDroppedBeforeGrouping ==
    /\ (Grouped /\ textContent = <<>>) => textBlocks = <<>>
    /\ extracted = "html" =>
           pageHtml = renderTextBlocksAsHtml(groupTextByBlocks(
                          TextItems(SelectSeq(textContent, HasText)), PageHeight))

\* --------------------------------------------------------------------- C21
\* C21: a call of intelligentTextWrap never ends by a throw of the font's
\* width function: it returns its lines, whatever the text.
C21_WrapNeverFails == wrapRet.state # "threw"

\* --------------------------------------------------------------------- C22
\* The text can be measured, and each of its characters fits the width.
EveryCharFits ==
    /\ Encodable(wrapArgs.text, Helvetica)
    /\ \A k \in 1..Len(wrapArgs.text) :
           FitsMeasured(<<wrapArgs.text[k]>>, wrapArgs.maxWidth, Helvetica,
                        wrapArgs.fontSize)
\* C22: when every character of the text fits maxWidth, every line
\* intelligentTextWrap returns has a measured width of at most maxWidth.
C22_NoLineOverMaxWidth ==
    (wrapRet.state = "returned" /\ EveryCharFits) =>
        \A k \in 1..Len(wrapRet.lines) :
            FitsMeasured(wrapRet.lines[k], wrapArgs.maxWidth, Helvetica,
                         wrapArgs.fontSize)

\* --------------------------------------------------------------------- C23
DrawStarted == walk.state \in {"walking", "text", "done"}
\* Every text line is on a page of the chosen size, at or above the
\* page-break threshold; the page counter is the number of pages.
LinesAboveThreshold ==
    DrawStarted =>
        /\ pdf.currentPage = Len(pdf.pages)
        /\ \A k \in 1..Len(pdf.pages) :
               /\ pdf.pages[k].size = PageSize
               /\ \A j \in 1..Len(pdf.pages[k].texts) :
                      /\ pdf.pages[k].texts[j].y >= Margin + 3000
                      /\ pdf.pages[k].texts[j].y <= PageSize.height - Margin
\* A step that adds a page adds one page, moves the page counter by one and
\* puts cursorY at height - margin (less the line drawn in that step).
BreakAddsOnePage ==
    (DrawStarted /\ Len(pdf'.pages) # Len(pdf.pages)) =>
        /\ Len(pdf'.pages) = Len(pdf.pages) + 1
        /\ pdf'.currentPage = pdf.currentPage + 1
        /\ pdf'.pages[Len(pdf'.pages)].size = pdf.pages[1].size
        /\ LET fresh == PageSize.height - Margin
               new == pdf'.pages[Len(pdf'.pages)]
           IN  \/ new.texts = <<>> /\ pdf'.cursorY = fresh
               \/ /\ Len(new.texts) = 1
                  /\ new.texts[1].y = fresh
                  /\ pdf'.cursorY = fresh - new.texts[1].size * 130
\* C23: in the Word->PDF rendering every text line is drawn at a cursor Y of
\* at least margin + 30 on a page of the document's size; a page break adds
\* one page of that size, resets cursor Y to height - margin and moves the
\* page counter by one, so that the reported page count is the number of
\* pages.
C23_PageBreakBeforeEveryLine ==
    [] LinesAboveThreshold /\ [][BreakAddsOnePage]_vars
\* A finished rendering of two pages whose second page carries text.
C23_Witness ==
    /\ walk.state = "done"
    /\ Len(pdf.pages) = 2
    /\ pdf.currentPage = 2
    /\ pdf.pages[2].texts # <<>>

\* --------------------------------------------------------------------- C24
\* C24: in a finished Word->PDF rendering every page after the first carries
\* at least one text line: no page was allocated that no line was drawn on.
C24_NoBlankPage ==
    walk.state = "done" =>
        \A k \in 2..Len(pdf.pages) : pdf.pages[k].texts # <<>>

\* --------------------------------------------------------------------- C25
\* The style the switch resolves for the element a drawn line is the text of,
\* the line's own font and size being the ones the element inherited.
StyleOfParent(t) ==
    ResolveStyle(t.parent.tagName, t.parent.className, t.font, t.size)
\* C25: every text line is drawn with the font, size, colour and alignment
\* that the style table resolves for the element containing the text.
C25_TextDrawnInElementStyle ==
    \A k \in 1..Len(pdf.pages) :
        \A j \in 1..Len(pdf.pages[k].texts) :
            LET t == pdf.pages[k].texts[j]
            IN  /\ t.font = StyleOfParent(t).font
                /\ t.size = StyleOfParent(t).size
                /\ t.color = StyleOfParent(t).color
                /\ t.alignment = StyleOfParent(t).alignment

\* --------------------------------------------------------------------- C26
\* C26: in a split-pdf run in range mode every output built for a range
\* holds the pages from..to of the source, with 1 <= from <= to <= page
\* count, from and to being the range's values as the loop clamps them: only
\* pages of the source, and to - from + 1 >= 1 of them.
C26_RangePagesWithinDocument ==
    (SplitRun /\ RangeMode(options) /\ pc \in {"split_ranges", "done"}) =>
        \A k \in 1..Len(results) :
            LET from == RangeFrom(options.ranges.items[k])
                to == RangeTo(options.ranges.items[k], Len(doc))
            IN  /\ ~from.nan /\ ~to.nan
                /\ 1 <= from.n /\ from.n <= to.n /\ to.n <= Len(doc)
                /\ results[k].doc = SubSeq(doc, from.n, to.n)

\* --------------------------------------------------------------------- C27
\* C27: the results ToolInterface shows, when there are any, were produced
\* by a run over exactly the files now selected.
C27_ResultsOfSelectedFiles ==
    uiResults.count > 0 => uiResults.of = uploadedFiles

\* --------------------------------------------------------------------- C28
\* C28: from one step to the next of a run in progress, the percentage
\* ToolInterface shows does not decrease.
C28_ShownProgressNeverDecreases ==
    [][(isProcessing /\ isProcessing') =>
          ShownProgress'.percentage >= ShownProgress.percentage]_vars

\* --------------------------------------------------------------------- C30
SingleFileTool == ~tool.multiple
\* C30: a tool configured with multiple: false never has more than one file
\* selected, and is never run on more than one file.
C30_SingleFileToolHasOneFile ==
    SingleFileTool =>
        /\ Len(uploadedFiles) <= 1
        /\ call.state = "pending" => Len(call.files) <= 1
\* A single-file tool running on its one selected file.
C30_Witness ==
    /\ SingleFileTool
    /\ Len(uploadedFiles) = 1
    /\ call.state = "pending"
    /\ Len(call.files) = 1

\* --------------------------------------------------------------------- C29
\* zip.file(result.name, result.blob) for each result: one entry per name.
ZipEntries(rs) == {rs[k].name : k \in 1..Len(rs)}
\* C29: the results a run resolves with have pairwise distinct names, so
\* the archive of all of them has as many entries as there are results.
C29_ResultNamesDistinct ==
    ret.state = "resolved" =>
        Cardinality(ZipEntries(ret.value)) = Len(ret.value)

=============================================================================
